---- MODULE Spec2Model ----
(***************************************************************************)
(* Grid trading bot (jolivem/jobot): the strategy state machine            *)
(* (app/services/trading_strategy.py), the replay loop that drives it, the *)
(* state recovery from the trade log, the bot runtime and the scheduler.   *)
(*                                                                         *)
(* Numbers.  Prices are positive integers (one unit = 0.1 quote units).    *)
(* Values the code derives by division (grid levels, quantities, fees) are *)
(* exact rationals [n, d] with d > 0, built by the same expression the     *)
(* code evaluates, so float rounding is abstracted to exact arithmetic.    *)
(* Python's None is Null.  Python list indices are 0-based and kept so:    *)
(* next_grid_index = i designates grid_prices[i + 1] of the TLA+ sequence. *)
(***************************************************************************)
EXTENDS Integers, Sequences, FiniteSets, TLC

VARIABLES
    bot,             \* the TradingBot row the strategy reads (configuration)
    state,           \* in-memory strategy state dict
    previous_price,  \* price of the previous tick, Null on the first
    decisions,       \* decisions returned by the last decide_trade call
    trades,          \* trade log, in insertion order
    last,            \* inputs of the last decide_trade call and the state it received
    grid_call,       \* a compute_grid call: its arguments and, once made, its result
    bot_state,       \* the bot_state:<id> key of the price store, NoState when absent
    run_pc,          \* the run_trading_bot task: "off", "init", "loop" or "exited"
    db_active,       \* is_active of the bot's row, as the runtime reads it
    faults,          \* exceptions and worker restarts injected so far
    rows,            \* trading_bots table: bot id -> Null (no row), 0 (inactive) or 1 (active)
    queued_runs,     \* broker: run_trading_bot messages waiting, per bot id
    queued_restarts, \* broker: restart_active_bots messages waiting
    running,         \* worker: run_trading_bot tasks executing, per bot id
    worker_up,       \* whether the Celery worker process is up
    bt,              \* a run_backtest call: its counters, open_buys and result
    scr,             \* a run_screening task: its locals and the progress blob in the store
    ws,              \* the ingest's connect_and_stream loop: position, backoff, event log
    ing,             \* the ingest: tracked symbols, price keys written, last refresh and batch
    kl,              \* a fetch_klines call: its arguments, locals, requests made and result
    opt,             \* optimize_parameters: inputs and returned value
    feed,            \* prices read by a runtime whose ticks are replayed
    price_key,       \* the price:<SYMBOL> key of the runtime's symbol in the price store
    es               \* the emergency_sell request on the runtime's bot

stratVars == <<bot, state, previous_price, decisions, trades, last>>
runVars == <<bot_state, run_pc, db_active, faults>>
schedVars == <<rows, queued_runs, queued_restarts, running, worker_up>>
jobVars == <<bt, scr, ws, ing, kl, opt, feed, price_key, es>>
vars == <<bot, state, previous_price, decisions, trades, last, grid_call,
          bot_state, run_pc, db_active, faults,
          rows, queued_runs, queued_restarts, running, worker_up, bt, scr, ws, ing, kl, opt, feed, price_key, es>>

----------------------------------------------------------------------------
(* Bounds and inputs *)

MaxTrades == 4
MaxGridPrice == 6
MaxGridLevels == 5
MaxBots == 2
MaxQueued == 2
WorkerConcurrency == 2
MaxRunTrades == 3
MaxFaults == 2
MaxBacktestLen == 6
MaxFreeSymbols == 3
MaxSymbols == 52
MaxWsEvents == 7

Null == -1

\* Strategy tunables, in thousandths (0.002 and 0.001).
PctScale == 1000
BUY_PULLBACK_PCT == 2
SELL_PULLBACK_PCT == 2
FEE_PCT == 1

Prices == {985, 990, 1010, 1030, 1045, 1050}

MakeBot(max_price, min_price, total_amount, grid_levels, sell_percentage) ==
    [id |-> 1, max_price |-> max_price, min_price |-> min_price,
     total_amount |-> total_amount, grid_levels |-> grid_levels,
     sell_percentage |-> sell_percentage]

\* Valid configurations: max_price > min_price > 0, total_amount > 0,
\* grid_levels >= 1, 0 < sell_percentage <= 100.
RunPrices == {985, 990, 1010, 1030}
RunBots == { MakeBot(1050, 1000, 1000, 3, 1) }

Bots ==
    { MakeBot(1050, 1000, 1000, 5, 1),
      MakeBot(1050, 1000, 1000, 3, 1),
      MakeBot(1050, 1000, 1000, 1, 1) }

----------------------------------------------------------------------------
(* Exact rationals *)

Rat(n, d) == [n |-> n, d |-> d]
RatLtInt(r, k) == r.n < k * r.d

SetMin(S) == CHOOSE x \in S : \A y \in S : x <= y

----------------------------------------------------------------------------
(* trading_strategy.py *)

compute_grid_mut_from_zero(max_price, min_price, grid_levels) ==
    IF grid_levels <= 1 \/ max_price <= min_price THEN <<>>
    ELSE [i \in 1..(grid_levels - 1) |->
            Rat(max_price * grid_levels - (i - 1) * (max_price - min_price), grid_levels)]

compute_grid(max_price, min_price, grid_levels) ==
    IF grid_levels <= 1 \/ max_price <= min_price THEN <<>>
    ELSE LET step == Rat(max_price - min_price, grid_levels)
         IN  [i \in 1..(grid_levels - 1) |->
                Rat(max_price * step.d - i * step.n, step.d)]

DefaultState ==
    [positions |-> <<>>, lowest_price |-> Null, grid_prices |-> <<>>, next_grid_index |-> 0]

\* qty = bot.total_amount / bot.grid_levels / current_price
BuyQty(b, price) == Rat(b.total_amount, b.grid_levels * price)

\* fee = qty * price * fee_pct
Fee(qty, price) == Rat(qty.n * price * FEE_PCT, qty.d * PctScale)

Position(qty, price) ==
    [qty |-> qty, entry |-> price, highest |-> price, fee |-> Fee(qty, price)]

Decision(side, qty, price) == [side |-> side, quantity |-> qty, entry_price |-> price]

\* bot.min_price <= current_price <= bot.max_price
InRange_mut_strict(b, price) == b.min_price < price /\ price < b.max_price

InRange(b, price) == b.min_price <= price /\ price <= b.max_price

\* a grid level equal to the price counts as below it
FirstGridBelow_mut_not_strict(grid_prices, price) ==
    LET below == {i \in 1..Len(grid_prices) :
                     grid_prices[i].n <= price * grid_prices[i].d}
    IN  IF below = {} THEN Len(grid_prices) ELSE SetMin(below) - 1

\* index (0-based) of the first grid level strictly below price, else len(grid_prices)
FirstGridBelow(grid_prices, price) ==
    LET below == {i \in 1..Len(grid_prices) : RatLtInt(grid_prices[i], price)}
    IN  IF below = {} THEN Len(grid_prices) ELSE SetMin(below) - 1

\* the "no positions" branch of decide_trade
IdleBranch_mut_no_grid(b, price, st) ==
    IF InRange(b, price)
    THEN LET qty == BuyQty(b, price)
         IN  [decisions |-> << Decision("buy", qty, price) >>,
              state |-> [positions |-> Append(st.positions, Position(qty, price)),
                         lowest_price |-> Null,
                         grid_prices |-> st.grid_prices,
                         next_grid_index |-> st.next_grid_index]]
    ELSE [decisions |-> <<>>, state |-> st]

IdleBranch(b, price, st) ==
    IF InRange(b, price)
    THEN LET qty == BuyQty(b, price)
             grid == compute_grid(b.max_price, b.min_price, b.grid_levels)
         IN  [decisions |-> << Decision("buy", qty, price) >>,
              state |-> [positions |-> Append(st.positions, Position(qty, price)),
                         lowest_price |-> Null,
                         grid_prices |-> grid,
                         next_grid_index |-> FirstGridBelow(grid, price)]]
    ELSE [decisions |-> <<>>, state |-> st]

UpdateLowest(lowest, price) ==
    IF lowest = Null \/ price < lowest THEN price ELSE lowest

UpdateHighest(positions, price) ==
    [i \in 1..Len(positions) |->
        IF price > positions[i].highest
        THEN [positions[i] EXCEPT !.highest = price]
        ELSE positions[i]]

\* gain_pct >= sell_percentage / 100 and price <= highest * (1 - sell_pullback_pct)
ShouldSell_mut_no_pullback(b, pos, price) ==
    (price - pos.entry) * 100 >= b.sell_percentage * pos.entry

ShouldSell(b, pos, price) ==
    /\ (price - pos.entry) * 100 >= b.sell_percentage * pos.entry
    /\ price * PctScale <= pos.highest * (PctScale - SELL_PULLBACK_PCT)

\* list.remove(x): drops the first element equal to x
RemoveFirst(s, x) ==
    LET hit == {i \in 1..Len(s) : s[i] = x}
    IN  IF hit = {} THEN s
        ELSE LET k == SetMin(hit)
             IN  [i \in 1..(Len(s) - 1) |-> IF i < k THEN s[i] ELSE s[i + 1]]

RECURSIVE RemoveAll(_, _)
RemoveAll(s, to_close) ==
    IF to_close = <<>> THEN s
    ELSE RemoveAll(RemoveFirst(s, Head(to_close)), Tail(to_close))

\* the guard of the grid buy, evaluated after the sell scan
GridBuyAllowed_mut_not_falling(b, price, prev, lowest, grid_prices, next_grid_index) ==
    /\ prev # Null
    /\ next_grid_index < Len(grid_prices)
    /\ price <= b.max_price
    /\ ~RatLtInt(grid_prices[next_grid_index + 1], price)
    /\ price * PctScale >= lowest * (PctScale + BUY_PULLBACK_PCT)

GridBuyAllowed(b, price, prev, lowest, grid_prices, next_grid_index) ==
    /\ prev # Null
    /\ next_grid_index < Len(grid_prices)
    /\ price <= b.max_price
    /\ ~RatLtInt(grid_prices[next_grid_index + 1], price)
    /\ price < prev
    /\ price * PctScale >= lowest * (PctScale + BUY_PULLBACK_PCT)

SellDecisions(to_close, price) ==
    [i \in 1..Len(to_close) |-> Decision("sell", to_close[i].qty, price)]

\* "If all positions closed, reset for next cycle"
ResetState_mut_keep_grid(st) ==
    [positions |-> <<>>, lowest_price |-> Null,
     grid_prices |-> st.grid_prices, next_grid_index |-> st.next_grid_index]

ResetState(st) ==
    [positions |-> <<>>, lowest_price |-> Null, grid_prices |-> <<>>, next_grid_index |-> 0]

\* the buy decisions of the grid-buy block: one when the guard holds, none otherwise
GridBuyDecisions_mut_every_level(b, price, allowed, grid_prices, next_grid_index) ==
    IF allowed
    THEN LET reached == {i \in (next_grid_index + 1)..Len(grid_prices) :
                            ~RatLtInt(grid_prices[i], price)}
         IN  [i \in 1..Cardinality(reached) |-> Decision("buy", BuyQty(b, price), price)]
    ELSE <<>>

GridBuyDecisions(b, price, allowed, grid_prices, next_grid_index) ==
    IF allowed THEN << Decision("buy", BuyQty(b, price), price) >> ELSE <<>>

\* a grid buy that leaves next_grid_index where it was
decide_trade_mut_no_advance(b, price, st, prev) ==
    IF st.positions = <<>> THEN IdleBranch(b, price, st)
    ELSE
      LET lowest == UpdateLowest(st.lowest_price, price)
          held == UpdateHighest(st.positions, price)
          to_close == SelectSeq(held, LAMBDA pos : ShouldSell(b, pos, price))
          sells == SellDecisions(to_close, price)
          kept == RemoveAll(held, to_close)
      IN
        IF kept = <<>>
        THEN [decisions |-> sells, state |-> ResetState(st)]
        ELSE
          LET allowed == GridBuyAllowed(b, price, prev, lowest,
                                        st.grid_prices, st.next_grid_index)
              buys == GridBuyDecisions(b, price, allowed, st.grid_prices, st.next_grid_index)
          IN  [decisions |-> sells \o buys,
               state |->
                 IF allowed
                 THEN [positions |-> Append(kept, Position(BuyQty(b, price), price)),
                       lowest_price |-> price,
                       grid_prices |-> st.grid_prices,
                       next_grid_index |-> st.next_grid_index]
                 ELSE [positions |-> kept,
                       lowest_price |-> lowest,
                       grid_prices |-> st.grid_prices,
                       next_grid_index |-> st.next_grid_index]]

\* a grid buy that sets lowest_price to None
decide_trade_mut_lowest_null(b, price, st, prev) ==
    IF st.positions = <<>> THEN IdleBranch(b, price, st)
    ELSE
      LET lowest == UpdateLowest(st.lowest_price, price)
          held == UpdateHighest(st.positions, price)
          to_close == SelectSeq(held, LAMBDA pos : ShouldSell(b, pos, price))
          sells == SellDecisions(to_close, price)
          kept == RemoveAll(held, to_close)
      IN
        IF kept = <<>>
        THEN [decisions |-> sells, state |-> ResetState(st)]
        ELSE
          LET allowed == GridBuyAllowed(b, price, prev, lowest,
                                        st.grid_prices, st.next_grid_index)
              buys == GridBuyDecisions(b, price, allowed, st.grid_prices, st.next_grid_index)
          IN  [decisions |-> sells \o buys,
               state |->
                 IF allowed
                 THEN [positions |-> Append(kept, Position(BuyQty(b, price), price)),
                       lowest_price |-> Null,
                       grid_prices |-> st.grid_prices,
                       next_grid_index |-> st.next_grid_index + 1]
                 ELSE [positions |-> kept,
                       lowest_price |-> lowest,
                       grid_prices |-> st.grid_prices,
                       next_grid_index |-> st.next_grid_index]]

decide_trade(b, price, st, prev) ==
    IF st.positions = <<>> THEN IdleBranch(b, price, st)
    ELSE
      LET lowest == UpdateLowest(st.lowest_price, price)
          held == UpdateHighest(st.positions, price)
          to_close == SelectSeq(held, LAMBDA pos : ShouldSell(b, pos, price))
          sells == SellDecisions(to_close, price)
          kept == RemoveAll(held, to_close)
      IN
        IF kept = <<>>
        THEN [decisions |-> sells, state |-> ResetState(st)]
        ELSE
          LET allowed == GridBuyAllowed(b, price, prev, lowest,
                                        st.grid_prices, st.next_grid_index)
              buys == GridBuyDecisions(b, price, allowed, st.grid_prices, st.next_grid_index)
          IN  [decisions |-> sells \o buys,
               state |->
                 IF allowed
                 THEN [positions |-> Append(kept, Position(BuyQty(b, price), price)),
                       lowest_price |-> price,
                       grid_prices |-> st.grid_prices,
                       next_grid_index |-> st.next_grid_index + 1]
                 ELSE [positions |-> kept,
                       lowest_price |-> lowest,
                       grid_prices |-> st.grid_prices,
                       next_grid_index |-> st.next_grid_index]]

\* sorted(trades, key=lambda t: t.created_at): stable
RECURSIVE InsertByCreatedAt(_, _)
InsertByCreatedAt(sorted, t) ==
    IF sorted = <<>> THEN << t >>
    ELSE LET z == sorted[Len(sorted)]
         IN  IF z.created_at <= t.created_at
             THEN Append(sorted, t)
             ELSE Append(InsertByCreatedAt(SubSeq(sorted, 1, Len(sorted) - 1), t), z)

RECURSIVE SortByCreatedAt(_)
SortByCreatedAt(ts) ==
    IF ts = <<>> THEN <<>>
    ELSE InsertByCreatedAt(SortByCreatedAt(SubSeq(ts, 1, Len(ts) - 1)), ts[Len(ts)])

\* "Replay trades: BUY pushes, SELL pops (FIFO)"
RECURSIVE ReplayTrades(_, _)
ReplayTrades(open_positions, ts) ==
    IF ts = <<>> THEN open_positions
    ELSE LET t == Head(ts)
         IN  IF t.trade_type = "buy"
             THEN ReplayTrades(Append(open_positions, Position(t.quantity, t.price)), Tail(ts))
             ELSE IF t.trade_type = "sell" /\ open_positions # <<>>
             THEN ReplayTrades(Tail(open_positions), Tail(ts))
             ELSE ReplayTrades(open_positions, Tail(ts))

\* the trades replayed in the order given
reconstruct_state_from_trades_mut_unsorted(b, ts) ==
    LET open_positions == ReplayTrades(<<>>, ts)
    IN  IF open_positions = <<>> THEN DefaultState
        ELSE
          LET first_buy_price == open_positions[1].entry
              grid == compute_grid(b.max_price, b.min_price, b.grid_levels)
              start_index == FirstGridBelow(grid, first_buy_price)
          IN  [positions |-> open_positions,
               lowest_price |-> SetMin({open_positions[i].entry : i \in 1..Len(open_positions)}),
               grid_prices |-> grid,
               next_grid_index |-> start_index + (Len(open_positions) - 1)]

reconstruct_state_from_trades(b, ts) ==
    LET open_positions == ReplayTrades(<<>>, SortByCreatedAt(ts))
    IN  IF open_positions = <<>> THEN DefaultState
        ELSE
          LET first_buy_price == open_positions[1].entry
              grid == compute_grid(b.max_price, b.min_price, b.grid_levels)
              start_index == FirstGridBelow(grid, first_buy_price)
          IN  [positions |-> open_positions,
               lowest_price |-> SetMin({open_positions[i].entry : i \in 1..Len(open_positions)}),
               grid_prices |-> grid,
               next_grid_index |-> start_index + (Len(open_positions) - 1)]

----------------------------------------------------------------------------
(* The replay loop: one decide_trade call per price, decisions logged in   *)
(* emission order, previous_price threaded.                                *)

Trade(d, at) ==
    [trade_type |-> d.side, price |-> d.entry_price, quantity |-> d.quantity, created_at |-> at]

LogDecisions(log, ds) ==
    log \o [i \in 1..Len(ds) |-> Trade(ds[i], Len(log) + i)]

NoCall == [called |-> FALSE, price |-> Null, prev |-> Null, pre |-> DefaultState, create_failed |-> 0,
           persisted |-> FALSE, tick |-> "none", upstream_fetch |-> FALSE]

NoGridCall == [done |-> FALSE, max_price |-> 0, min_price |-> 0, grid_levels |-> 0, result |-> <<>>]

NoState == [absent |-> TRUE]

BotIds == 1..MaxBots

\* no runtime task and no scheduler activity
RunOff == bot_state = NoState /\ run_pc = "off" /\ db_active = TRUE /\ faults = 0

SchedOff ==
    /\ rows = [b \in BotIds |-> Null]
    /\ queued_runs = [b \in BotIds |-> 0]
    /\ queued_restarts = 0
    /\ running = [b \in BotIds |-> 0]
    /\ worker_up = FALSE

\* no backtest, screening or ingest activity
NoBacktest == [pc |-> "off", processed |-> 0, num_buys |-> 0, num_sells |-> 0,
               open_buys |-> <<>>, realized_pnl |-> 0, result |-> <<>>]

NoBlob == [absent |-> TRUE]

NoScreening == [pc |-> "off", total |-> 0, i |-> 0, results |-> <<>>, blob |-> NoBlob,
                db_rows |-> <<>>]

reconnect_delay == 5
max_reconnect_delay == 60

\* BinanceWebSocketService after __init__; log: 0 for a successful connection, the
\* delay slept for a failure
NoStream == [pc |-> "off", is_running |-> FALSE, current_delay |-> reconnect_delay, log |-> <<>>]

\* symbol column values of trading_bots rows, and the symbols of upstream tickers
DbSymbols == {"btcusdc", "BTCUSDC", "ETHUSDC"}

TickerSymbols == {"BTCUSDC", "ETHUSDC", "SOLUSDC"}

\* str.upper on the symbols above
Upper(sym) == IF sym = "btcusdc" THEN "BTCUSDC" ELSE sym

\* symbols_to_track = None
TrackAll == [is_none |-> TRUE, symbols |-> {}]

NoIngest == [pc |-> "off", tracked |-> TrackAll, store |-> {},
             refresh |-> [done |-> FALSE, found |-> {}],
             msg |-> [done |-> FALSE, batch |-> {}, tracked |-> TrackAll, written |-> {}]]

NoKlines == [pc |-> "off", limit |-> 0, available |-> 0, all_klines |-> <<>>,
             end_time |-> Null, remaining |-> 0, requests |-> <<>>, result |-> <<>>]

NoOptimize == [pc |-> "off", close_prices |-> <<>>, train_ratio |-> [n |-> 0, d |-> 1],
               top_n |-> 0, combos |-> <<>>, results |-> <<>>, raised |-> "none",
               best_params |-> <<>>, test_result |-> <<>>, all_results |-> <<>>,
               train_size |-> 0, test_size |-> 0]

NoFeed == <<>>

\* no emergency_sell request in progress
NoEmergency == [pc |-> "idle", buys |-> <<>>, price |-> Null]

\* no price:<SYMBOL> key in the store (never written, or expired)
NoPrice == [present |-> FALSE, price |-> Null, ttl |-> 0, age |-> 0]

JobsOff == bt = NoBacktest /\ scr = NoScreening /\ ws = NoStream /\ ing = NoIngest /\ kl = NoKlines /\ opt = NoOptimize /\ feed = NoFeed /\ price_key = NoPrice /\ es = NoEmergency

StratIdle ==
    /\ state = DefaultState
    /\ previous_price = Null
    /\ decisions = <<>>
    /\ trades = <<>>
    /\ last = NoCall

Init ==
    /\ bot \in Bots
    /\ StratIdle
    /\ grid_call = NoGridCall
    /\ RunOff
    /\ SchedOff
    /\ JobsOff

Tick(price) ==
    /\ Len(trades) < MaxTrades
    /\ LET r == decide_trade(bot, price, state, previous_price)
       IN  /\ decisions' = r.decisions
           /\ state' = r.state
           /\ trades' = LogDecisions(trades, r.decisions)
    /\ last' = [called |-> TRUE, price |-> price, prev |-> previous_price, pre |-> state,
                create_failed |-> 0, persisted |-> FALSE, tick |-> "trade",
                upstream_fetch |-> FALSE]
    /\ previous_price' = price
    /\ UNCHANGED <<bot, grid_call, runVars, schedVars, jobVars>>

Next == \E price \in Prices : Tick(price)

Spec == Init /\ [][Next]_vars

----------------------------------------------------------------------------
(* compute_grid on its own: arguments drawn at Init, one call.             *)

InitGrid ==
    /\ bot = MakeBot(1050, 1000, 1000, 5, 1)
    /\ StratIdle
    /\ RunOff
    /\ SchedOff
    /\ JobsOff
    /\ \E max_price \in 1..MaxGridPrice, min_price \in 1..MaxGridPrice, grid_levels \in 0..MaxGridLevels :
          grid_call = [done |-> FALSE, max_price |-> max_price, min_price |-> min_price,
                       grid_levels |-> grid_levels, result |-> <<>>]

CallComputeGrid ==
    /\ ~grid_call.done
    /\ grid_call' = [grid_call EXCEPT
                       !.done = TRUE,
                       !.result = compute_grid(grid_call.max_price, grid_call.min_price,
                                               grid_call.grid_levels)]
    /\ UNCHANGED <<stratVars, runVars, schedVars, jobVars>>

NextGrid == CallComputeGrid

SpecGrid == InitGrid /\ [][NextGrid]_vars

----------------------------------------------------------------------------
(* The scheduler: API handlers and the worker's startup hook send          *)
(* run_trading_bot messages; the worker consumes them.                     *)

SendRun(b) == queued_runs' = [queued_runs EXCEPT ![b] = @ + 1]

\* the scheduler leaves the strategy and the runtime of the other specifications alone
SchedFrame == UNCHANGED <<stratVars, grid_call, runVars, jobVars>>

InitSched ==
    /\ bot = MakeBot(1050, 1000, 1000, 5, 1)
    /\ StratIdle
    /\ grid_call = NoGridCall
    /\ RunOff
    /\ SchedOff
    /\ JobsOff

\* TradingBotService.create: insert the row (is_active defaults to 1), launch the task
CreateBot(b) ==
    /\ rows[b] = Null
    /\ queued_runs[b] < MaxQueued
    /\ rows' = [rows EXCEPT ![b] = 1]
    /\ SendRun(b)
    /\ UNCHANGED <<queued_restarts, running, worker_up>>
    /\ SchedFrame

\* TradingBotService.deactivate
DeactivateBot(b) ==
    /\ rows[b] = 1
    /\ rows' = [rows EXCEPT ![b] = 0]
    /\ UNCHANGED <<queued_runs, queued_restarts, running, worker_up>>
    /\ SchedFrame

\* TradingBotService.update with is_active = active (0 or 1): launch the task if the
\* row was inactive and is_active == 1
UpdateBot(b, active) ==
    /\ rows[b] # Null
    /\ queued_runs[b] < MaxQueued
    /\ LET was_inactive == rows[b] = 0
       IN  /\ rows' = [rows EXCEPT ![b] = active]
           /\ IF was_inactive /\ active = 1
              THEN SendRun(b)
              ELSE UNCHANGED queued_runs
    /\ UNCHANGED <<queued_restarts, running, worker_up>>
    /\ SchedFrame

\* the worker process starts: worker_ready sends restart_active_bots
WorkerReady ==
    /\ ~worker_up
    /\ queued_restarts < MaxQueued
    /\ worker_up' = TRUE
    /\ queued_restarts' = queued_restarts + 1
    /\ UNCHANGED <<rows, queued_runs, running>>
    /\ SchedFrame

\* the worker process stops: its executing tasks end with it, queued messages stay
WorkerStop ==
    /\ worker_up
    /\ worker_up' = FALSE
    /\ running' = [b \in BotIds |-> 0]
    /\ UNCHANGED <<rows, queued_runs, queued_restarts>>
    /\ SchedFrame

\* the restart_active_bots task: run_trading_bot.delay(bot_id) for every active id
restart_active_bots ==
    /\ worker_up
    /\ queued_restarts > 0
    /\ \A b \in BotIds : rows[b] = 1 => queued_runs[b] < MaxQueued
    /\ queued_restarts' = queued_restarts - 1
    /\ queued_runs' = [b \in BotIds |-> IF rows[b] = 1 THEN queued_runs[b] + 1
                                         ELSE queued_runs[b]]
    /\ UNCHANGED <<rows, running, worker_up>>
    /\ SchedFrame

RECURSIVE SumOver(_, _)
SumOver(f, S) ==
    IF S = {} THEN 0
    ELSE LET x == CHOOSE y \in S : TRUE
         IN  f[x] + SumOver(f, S \ {x})

\* the worker takes a run_trading_bot message and starts the task in a free slot
StartRun(b) ==
    /\ worker_up
    /\ queued_runs[b] > 0
    /\ SumOver(running, BotIds) < WorkerConcurrency
    /\ queued_runs' = [queued_runs EXCEPT ![b] = @ - 1]
    /\ running' = [running EXCEPT ![b] = @ + 1]
    /\ UNCHANGED <<rows, queued_restarts, worker_up>>
    /\ SchedFrame

\* a tick of a running task that finds the bot inactive: the task returns
RuntimeExit(b) ==
    /\ worker_up
    /\ running[b] > 0
    /\ rows[b] # 1
    /\ running' = [running EXCEPT ![b] = @ - 1]
    /\ UNCHANGED <<rows, queued_runs, queued_restarts, worker_up>>
    /\ SchedFrame

NextSched ==
    \/ \E b \in BotIds : CreateBot(b)
    \/ \E b \in BotIds : DeactivateBot(b)
    \/ \E b \in BotIds, active \in {0, 1} : UpdateBot(b, active)
    \/ WorkerReady
    \/ WorkerStop
    \/ restart_active_bots
    \/ \E b \in BotIds : StartRun(b)
    \/ \E b \in BotIds : RuntimeExit(b)

SpecSched == InitSched /\ [][NextSched]_vars

----------------------------------------------------------------------------
(* The bot runtime: the run_trading_bot task of one bot.  bot_state values *)
(* pass through json.dumps / json.loads, which returns floats, ints, lists *)
(* and None as written, so a stored state is read back as it was stored.   *)

\* the runtime leaves the scheduler and compute_grid calls of the other specifications alone
RunFrame == UNCHANGED <<bot, grid_call, schedVars, jobVars>>

\* TradeRepository.list_by_bot: rows ordered by created_at descending; rows with the
\* same created_at come in an order the database chooses
RECURSIVE DescOrders(_, _)
DescOrders(ts, S) ==
    IF S = {} THEN { <<>> }
    ELSE LET top == {i \in S : \A j \in S : ts[i].created_at >= ts[j].created_at}
         IN  UNION { { << ts[i] >> \o rest : rest \in DescOrders(ts, S \ {i}) } : i \in top }

list_by_bot(ts) == DescOrders(ts, 1..Len(ts))

\* rows committed in one tick carry the same created_at (DateTime, server clock)
RecordDecisions(log, ds) ==
    log \o [i \in 1..Len(ds) |-> Trade(ds[i], Len(log) + 1)]

InitRun ==
    /\ bot \in RunBots
    /\ StratIdle
    /\ grid_call = NoGridCall
    /\ bot_state = NoState
    /\ run_pc = "init"
    /\ db_active = TRUE
    /\ faults = 0
    /\ SchedOff
    /\ JobsOff

Fault(happened) ==
    /\ happened => faults < MaxFaults
    /\ faults' = IF happened THEN faults + 1 ELSE faults

\* task start: state from bot_state, else reconstructed from the trade log.
\* fail: "none", "get_state" (cache.get_bot_state raises, outside any try),
\* "db" (the session raises) or "set_state" (cache.set_bot_state raises).
LoadStateBody(fail) ==
    /\ run_pc = "init"
    /\ Fault(fail # "none")
    /\ IF fail = "get_state"
       THEN /\ run_pc' = "failed"
            /\ UNCHANGED <<state, bot_state>>
       ELSE /\ run_pc' = "loop"
            /\ IF bot_state # NoState
               THEN state' = bot_state /\ UNCHANGED bot_state
               ELSE IF fail = "db" \/ ~db_active \/ trades = <<>>
               THEN state' = DefaultState /\ UNCHANGED bot_state
               ELSE \E ts \in list_by_bot(trades) :
                      LET rebuilt == reconstruct_state_from_trades(bot, ts)
                      IN  IF fail = "set_state"
                          THEN state' = DefaultState /\ UNCHANGED bot_state
                          ELSE state' = rebuilt /\ bot_state' = rebuilt
    /\ UNCHANGED <<previous_price, decisions, trades, last, db_active>>

LoadState(fail) == LoadStateBody(fail) /\ RunFrame

\* a tick in which the session raises before the bot row is read: swallowed
TickDbError ==
    /\ run_pc = "loop"
    /\ Fault(TRUE)
    /\ UNCHANGED <<stratVars, bot_state, run_pc, db_active>>
    /\ RunFrame

\* a tick that finds the bot inactive and returns with bot_state left in the store
TickInactive_mut_keep_state ==
    /\ run_pc = "loop"
    /\ ~db_active
    /\ run_pc' = "exited"
    /\ state' = DefaultState
    /\ previous_price' = Null
    /\ UNCHANGED <<bot_state, decisions, trades, last, db_active, faults>>
    /\ RunFrame

\* a tick that finds the bot inactive: delete bot_state and return
TickInactive ==
    /\ run_pc = "loop"
    /\ ~db_active
    /\ bot_state' = NoState
    /\ run_pc' = "exited"
    /\ state' = DefaultState
    /\ previous_price' = Null
    /\ UNCHANGED <<decisions, trades, last, db_active, faults>>
    /\ RunFrame

\* the runtime's part of a tick in which cache.get_price returned None
TickNoPriceBody ==
    /\ run_pc = "loop"
    /\ db_active
    /\ last' = [last EXCEPT !.tick = "no_price"]
    /\ UNCHANGED <<state, previous_price, decisions, trades, runVars>>

\* a tick with no price in the store that fetches the price upstream and trades on it
TickNoPrice_mut_upstream_fallback ==
    /\ run_pc = "loop"
    /\ db_active
    /\ Len(trades) < MaxRunTrades
    /\ \E price \in RunPrices :
          LET r == decide_trade(bot, price, state, previous_price)
          IN  /\ decisions' = r.decisions
              /\ state' = r.state
              /\ trades' = RecordDecisions(trades, r.decisions)
              /\ bot_state' = r.state
              /\ previous_price' = price
              /\ last' = [called |-> TRUE, price |-> price, prev |-> previous_price,
                          pre |-> state, create_failed |-> 0, persisted |-> TRUE,
                          tick |-> "no_price", upstream_fetch |-> TRUE]
    /\ UNCHANGED <<run_pc, db_active, faults>>
    /\ RunFrame

\* a tick with no price in the store: count the iteration, sleep, continue.  Nothing
\* but the record of the last tick's kind changes.
TickNoPrice ==
    /\ TickNoPriceBody
    /\ RunFrame

\* cache.set_bot_state comes after the loop over the decisions: it is reached, and
\* returns, only in a tick in which nothing raised
PersistReached_mut_before_rows(fail_at, n) == fail_at # n + 1

PersistReached(fail_at, n) == fail_at = 0

\* a tick that never updates previous_price
TickTradeBody_mut_stale_previous(price) ==
    /\ run_pc = "loop"
    /\ db_active
    /\ Len(trades) < MaxRunTrades
    /\ LET r == decide_trade(bot, price, state, previous_price)
           n == Len(r.decisions)
       IN  \E fail_at \in 0..(n + 1) :
             LET written == IF fail_at \in 1..n THEN fail_at - 1 ELSE n
             IN  /\ Fault(fail_at # 0)
                 /\ decisions' = r.decisions
                 /\ state' = r.state
                 /\ trades' = RecordDecisions(trades, SubSeq(r.decisions, 1, written))
                 /\ bot_state' = IF PersistReached(fail_at, n) THEN r.state ELSE bot_state
                 /\ previous_price' = previous_price
                 /\ last' = [called |-> TRUE, price |-> price, prev |-> previous_price,
                             pre |-> state,
                             create_failed |-> IF fail_at \in 1..n THEN fail_at ELSE 0,
                             persisted |-> PersistReached(fail_at, n),
                             tick |-> "trade", upstream_fetch |-> FALSE]
    /\ UNCHANGED <<run_pc, db_active>>

\* a tick with a price: decide_trade, one trade row per decision, bot_state written,
\* previous_price updated.  fail_at = 0: nothing raises; fail_at = k in 1..n: the
\* k-th trade_repo.create raises (rows 1..k-1 are committed); fail_at = n + 1:
\* cache.set_bot_state raises.  The exception is swallowed at the end of the tick.
\* decide_trade has already updated the state dict the loop keeps.
TickTradeBody(price) ==
    /\ run_pc = "loop"
    /\ db_active
    /\ Len(trades) < MaxRunTrades
    /\ LET r == decide_trade(bot, price, state, previous_price)
           n == Len(r.decisions)
       IN  \E fail_at \in 0..(n + 1) :
             LET written == IF fail_at \in 1..n THEN fail_at - 1 ELSE n
             IN  /\ Fault(fail_at # 0)
                 /\ decisions' = r.decisions
                 /\ state' = r.state
                 /\ trades' = RecordDecisions(trades, SubSeq(r.decisions, 1, written))
                 /\ bot_state' = IF PersistReached(fail_at, n) THEN r.state ELSE bot_state
                 /\ previous_price' = IF fail_at = 0 THEN price ELSE previous_price
                 /\ last' = [called |-> TRUE, price |-> price, prev |-> previous_price,
                             pre |-> state,
                             create_failed |-> IF fail_at \in 1..n THEN fail_at ELSE 0,
                             persisted |-> PersistReached(fail_at, n),
                             tick |-> "trade", upstream_fetch |-> FALSE]
    /\ UNCHANGED <<run_pc, db_active>>

TickTrade(price) == TickTradeBody(price) /\ RunFrame

\* TradingBotService.deactivate on the runtime's bot
Deactivate ==
    /\ db_active
    /\ db_active' = FALSE
    /\ UNCHANGED <<stratVars, bot_state, run_pc, faults>>
    /\ RunFrame

\* TradingBotService.update(is_active=1) after the task has returned: a new task
Reactivate ==
    /\ ~db_active
    /\ run_pc = "exited"
    /\ db_active' = TRUE
    /\ run_pc' = "init"
    /\ UNCHANGED <<stratVars, bot_state, faults>>
    /\ RunFrame

\* the worker process dies and comes back: the task's locals are lost and
\* restart_active_bots dispatches a new task if the bot is active
WorkerRestart ==
    /\ run_pc \in {"init", "loop", "failed"}
    /\ Fault(TRUE)
    /\ run_pc' = IF db_active THEN "init" ELSE "exited"
    /\ state' = DefaultState
    /\ previous_price' = Null
    /\ UNCHANGED <<decisions, trades, last, bot_state, db_active>>
    /\ RunFrame

NextRun ==
    \/ \E fail \in {"none", "get_state", "db", "set_state"} : LoadState(fail)
    \/ TickDbError
    \/ TickInactive
    \/ TickNoPrice
    \/ \E price \in RunPrices : TickTrade(price)
    \/ Deactivate
    \/ Reactivate
    \/ WorkerRestart

SpecRun == InitRun /\ [][NextRun]_vars

----------------------------------------------------------------------------
(* run_backtest: the close prices are replayed through decide_trade, the   *)
(* decisions are counted and matched against open_buys.                    *)

\* amounts of money are floats in the code; here they are fixed-point numbers with
\* MoneyScale units to 1, each product rounded down
MoneyScale == 1000

\* price * quantity
Money(price, quantity) == (price * quantity.n * MoneyScale) \div quantity.d

\* amount * fee_pct
FeeOf(amount) == (amount * FEE_PCT) \div PctScale

\* trade_pnl of a SELL d matched with the open buy b
TradePnl(d, b) ==
    LET sell_value == Money(d.entry_price, d.quantity)
        buy_cost == Money(b.entry_price, b.quantity)
    IN  sell_value - FeeOf(sell_value) - buy_cost - FeeOf(buy_cost)

\* a SELL counted without taking a buy off open_buys
BacktestFold_mut_no_pop(acc, ds) ==
    LET F[k \in 0..Len(ds)] ==
          IF k = 0 THEN acc
          ELSE IF ds[k].side = "buy"
               THEN [F[k - 1] EXCEPT !.num_buys = @ + 1,
                                     !.open_buys = Append(@, [entry_price |-> ds[k].entry_price,
                                                              quantity |-> ds[k].quantity])]
               ELSE [F[k - 1] EXCEPT !.num_sells = @ + 1]
    IN  F[Len(ds)]

\* the loop over one call's decisions: a BUY is appended to open_buys, a SELL takes
\* the oldest entry off open_buys if there is one
BacktestFold(acc, ds) ==
    LET F[k \in 0..Len(ds)] ==
          IF k = 0 THEN acc
          ELSE IF ds[k].side = "buy"
               THEN [F[k - 1] EXCEPT !.num_buys = @ + 1,
                                     !.open_buys = Append(@, [entry_price |-> ds[k].entry_price,
                                                              quantity |-> ds[k].quantity])]
               ELSE [F[k - 1] EXCEPT !.num_sells = @ + 1,
                                     !.realized_pnl =
                                         IF F[k - 1].open_buys # <<>>
                                         THEN @ + TradePnl(ds[k], Head(F[k - 1].open_buys))
                                         ELSE @,
                                     !.open_buys = IF @ # <<>> THEN Tail(@) ELSE @]
    IN  F[Len(ds)]

\* unrealized P&L of the open buys at the last price
UnrealizedPnl(open_buys, last_price) ==
    LET F[k \in 0..Len(open_buys)] ==
          IF k = 0 THEN 0
          ELSE LET cost == Money(open_buys[k].entry_price, open_buys[k].quantity)
               IN  F[k - 1] + Money(last_price, open_buys[k].quantity) - (cost + FeeOf(cost))
    IN  F[Len(open_buys)]

\* the metrics returned; total_pnl_pct = total_pnl / total_amount * 100 in units of
\* 1/MoneyScale percent (the drawdown, Sharpe and win-rate metrics are left out)
BacktestResult(b, acc, last_price) ==
    LET total_pnl == acc.realized_pnl + UnrealizedPnl(acc.open_buys, last_price)
    IN  [total_pnl_pct |-> IF b.total_amount > 0
                           THEN (total_pnl * 100) \div b.total_amount ELSE 0,
         num_trades |-> acc.num_buys + acc.num_sells,
         num_buys |-> acc.num_buys,
         num_sells |-> acc.num_sells,
         final_open_positions |-> Len(acc.open_buys),
         min_price |-> b.min_price,
         max_price |-> b.max_price,
         grid_levels |-> b.grid_levels,
         sell_percentage |-> b.sell_percentage,
         total_amount |-> b.total_amount]

BacktestFrame == UNCHANGED <<bot, trades, last, grid_call, runVars, schedVars, scr, ws, ing, kl, opt, feed, price_key, es>>

InitBacktest ==
    /\ bot \in Bots
    /\ StratIdle
    /\ grid_call = NoGridCall
    /\ RunOff
    /\ SchedOff
    /\ bt = [NoBacktest EXCEPT !.pc = "loop"]
    /\ scr = NoScreening
    /\ ws = NoStream
    /\ ing = NoIngest
    /\ kl = NoKlines
    /\ opt = NoOptimize
    /\ es = NoEmergency
    /\ price_key = NoPrice
    /\ feed = NoFeed

\* one iteration of the loop over close_prices
BacktestStep(price) ==
    /\ bt.pc = "loop"
    /\ bt.processed < MaxBacktestLen
    /\ LET r == decide_trade(bot, price, state, previous_price)
       IN  /\ decisions' = r.decisions
           /\ state' = r.state
           /\ bt' = [BacktestFold(bt, r.decisions) EXCEPT !.processed = @ + 1]
    /\ previous_price' = price
    /\ BacktestFrame

\* close_prices is exhausted: the metrics are returned
BacktestReturn ==
    /\ bt.pc = "loop"
    /\ bt' = [bt EXCEPT !.pc = "done", !.result = BacktestResult(bot, bt,
                                                  IF previous_price = Null THEN 0
                                                  ELSE previous_price)]
    /\ UNCHANGED <<state, previous_price, decisions>>
    /\ BacktestFrame

NextBacktest ==
    \/ \E price \in Prices : BacktestStep(price)
    \/ BacktestReturn

SpecBacktest == InitBacktest /\ [][NextBacktest]_vars

----------------------------------------------------------------------------
(* run_screening: one task over `total` symbols.  A symbol's outcome is a  *)
(* result row, fewer than 200 klines, or an exception.  The first          *)
(* MaxFreeSymbols symbols take any outcome; the symbols after them follow  *)
(* ScriptedPnl, so that more than RESULTS_LIMIT rows are collected.        *)

RESULTS_LIMIT == 50

PnlValues == {-5, 0, 7}

Outcomes == {"result", "short", "error"}

ScriptedPnl(i) == (i * 3) % 11

\* sorted(results, key=best_pnl_pct, reverse=True): a stable sort, so the rows come
\* by decreasing key and the rows with the same key keep the order of rs
SortByPnlDesc(rs) ==
    IF rs = <<>> THEN <<>>
    ELSE LET keys == {rs[i].best_pnl_pct : i \in 1..Len(rs)}
             hi == CHOOSE v \in keys : \A w \in keys : w <= v
             lo == CHOOSE v \in keys : \A w \in keys : v <= w
             G[v \in lo..(hi + 1)] ==
                 IF v = hi + 1 THEN <<>>
                 ELSE G[v + 1] \o SelectSeq(rs, LAMBDA r : r.best_pnl_pct = v)
         IN  G[lo]

Truncate(rs, n) == IF Len(rs) <= n THEN rs ELSE SubSeq(rs, 1, n)

\* the first RESULTS_LIMIT collected rows, then sorted
TopResults_mut_truncate_first(rs) == SortByPnlDesc(Truncate(rs, RESULTS_LIMIT))

TopResults(rs) == Truncate(SortByPnlDesc(rs), RESULTS_LIMIT)

\* int(processed / total * 100): the float quotient times 100 can fall just below an
\* integer value (29 / 100 * 100 = 28.999999999999996), so int() gives the floor or,
\* where the exact value is an integer, possibly one less
ProgressValues(processed, total) ==
    IF total <= 0 THEN {0}
    ELSE LET exact == (processed * 100) \div total
         IN  IF (processed * 100) % total = 0 /\ processed > 0 /\ processed < total
             THEN {exact, exact - 1}
             ELSE {exact}

\* update_progress(processed, status): the blobs it can write to the store
update_progress(s, processed, status) ==
    { [status |-> status,
       progress |-> pr,
       total_symbols |-> s.total,
       processed_symbols |-> processed,
       results |-> TopResults(s.results),
       completed_at |-> IF status = "completed" THEN "now" ELSE "null"] :
      pr \in ProgressValues(processed, s.total) }

\* a symbol with fewer than 200 klines leaves the loop iteration without publishing
PublishAfterSymbol_mut_short_uncounted(s, outcome) ==
    IF outcome = "short" THEN {s.blob} ELSE update_progress(s, s.i + 1, "running")

\* update_progress(i + 1) at the end of the iteration of symbol i, whatever the outcome
PublishAfterSymbol(s, outcome) == update_progress(s, s.i + 1, "running")

\* a failed commit leaves the task
AfterPersist_mut_raise(fail) == IF fail THEN "failed" ELSE "final"

\* the except clause of the persist block logs and rolls back; the task goes on
AfterPersist(fail) == "final"

ScreenFrame == UNCHANGED <<stratVars, grid_call, runVars, schedVars, bt, ws, ing, kl, opt, feed, price_key, es>>

\* the task starts with the symbol list read: total = len(symbols)
ScreenTaskStarted(totals) ==
    /\ bot = MakeBot(1050, 1000, 1000, 5, 1)
    /\ StratIdle
    /\ grid_call = NoGridCall
    /\ RunOff
    /\ SchedOff
    /\ bt = NoBacktest
    /\ ws = NoStream
    /\ ing = NoIngest
    /\ kl = NoKlines
    /\ opt = NoOptimize
    /\ es = NoEmergency
    /\ price_key = NoPrice
    /\ feed = NoFeed
    /\ \E total \in totals :
          scr = [NoScreening EXCEPT !.pc = "start", !.total = total]

InitScreen == ScreenTaskStarted((0..MaxFreeSymbols) \cup {MaxSymbols})

InitScreenShort == ScreenTaskStarted(0..MaxFreeSymbols)

\* update_progress(0)
ScreenStart ==
    /\ scr.pc = "start"
    /\ \E b \in update_progress(scr, 0, "running") :
          scr' = [scr EXCEPT !.pc = "loop", !.blob = b]
    /\ ScreenFrame

\* one iteration of the loop over the symbols
ScreenSymbol(outcome, pnl) ==
    /\ scr.pc = "loop"
    /\ scr.i < scr.total
    /\ scr.i >= MaxFreeSymbols => (outcome = "result" /\ pnl = ScriptedPnl(scr.i))
    /\ outcome # "result" => pnl = 0
    /\ LET collected == IF outcome = "result"
                        THEN Append(scr.results, [symbol |-> scr.i + 1, best_pnl_pct |-> pnl])
                        ELSE scr.results
           s == [scr EXCEPT !.results = collected]
       IN  \E b \in PublishAfterSymbol(s, outcome) :
             scr' = [s EXCEPT !.i = @ + 1, !.blob = b]
    /\ ScreenFrame

\* the loop is over: the collected rows are added and committed in one transaction
ScreenPersist(fail) ==
    /\ scr.pc = "loop"
    /\ scr.i = scr.total
    /\ scr' = [scr EXCEPT !.pc = AfterPersist(fail),
                          !.db_rows = IF fail THEN <<>> ELSE scr.results]
    /\ ScreenFrame

\* update_progress(total, status="completed")
ScreenComplete ==
    /\ scr.pc = "final"
    /\ \E b \in update_progress(scr, scr.total, "completed") :
          scr' = [scr EXCEPT !.pc = "done", !.blob = b]
    /\ ScreenFrame

NextScreen ==
    \/ ScreenStart
    \/ \E outcome \in Outcomes, pnl \in PnlValues \cup {ScriptedPnl(scr.i)} : ScreenSymbol(outcome, pnl)
    \/ \E fail \in BOOLEAN : ScreenPersist(fail)
    \/ ScreenComplete

SpecScreen == InitScreen /\ [][NextScreen]_vars

\* the task runs on the worker until it returns: every iteration is eventually taken
SpecScreenFair == InitScreenShort /\ [][NextScreen]_vars /\ WF_vars(NextScreen)

----------------------------------------------------------------------------
(* BinanceWebSocketService.connect_and_stream: connect, stream, and on a   *)
(* failure sleep current_delay before the next attempt.                    *)

Min(a, b) == IF a <= b THEN a ELSE b

\* the delay doubled without the cap
NextDelay_mut_uncapped(current_delay) == current_delay * 2

\* current_delay = min(current_delay * 2, self.max_reconnect_delay)
NextDelay(current_delay) == Min(current_delay * 2, max_reconnect_delay)

\* while self.is_running
LoopTop(is_running) == IF is_running THEN "connecting" ELSE "stopped"

StreamFrame == UNCHANGED <<stratVars, grid_call, runVars, schedVars, bt, scr, ing, kl, opt, feed, price_key, es>>

InitStream ==
    /\ bot = MakeBot(1050, 1000, 1000, 5, 1)
    /\ StratIdle
    /\ grid_call = NoGridCall
    /\ RunOff
    /\ SchedOff
    /\ bt = NoBacktest
    /\ scr = NoScreening
    /\ ing = NoIngest
    /\ kl = NoKlines
    /\ opt = NoOptimize
    /\ es = NoEmergency
    /\ price_key = NoPrice
    /\ feed = NoFeed
    /\ ws = [NoStream EXCEPT !.pc = "connecting", !.is_running = TRUE]

\* websockets.connect succeeds: the backoff is reset
WsConnectOk ==
    /\ ws.pc = "connecting"
    /\ Len(ws.log) < MaxWsEvents
    /\ ws' = [ws EXCEPT !.pc = "streaming",
                        !.current_delay = reconnect_delay,
                        !.log = Append(@, 0)]
    /\ StreamFrame

\* the connection attempt or the open stream raises: sleep current_delay, then raise
\* the delay for the next failure
WsFail ==
    /\ ws.pc \in {"connecting", "streaming"}
    /\ Len(ws.log) < MaxWsEvents
    /\ ws' = [ws EXCEPT !.pc = LoopTop(ws.is_running),
                        !.current_delay = NextDelay(@),
                        !.log = Append(@, ws.current_delay)]
    /\ StreamFrame

\* the server closes the stream normally: the message loop ends, no sleep
WsCleanClose ==
    /\ ws.pc = "streaming"
    /\ ws' = [ws EXCEPT !.pc = LoopTop(ws.is_running)]
    /\ StreamFrame

\* BinanceWebSocketService.stop
WsStop ==
    /\ ws.is_running
    /\ ws' = [ws EXCEPT !.is_running = FALSE]
    /\ StreamFrame

NextStream ==
    \/ WsConnectOk
    \/ WsFail
    \/ WsCleanClose
    \/ WsStop

SpecStream == InitStream /\ [][NextStream]_vars

----------------------------------------------------------------------------
(* The ingest worker: the stream's message handler filters each batch of   *)
(* tickers by symbols_to_track; a periodic task refreshes symbols_to_track *)
(* from the active bots.  Both are coroutines of one event loop and        *)
(* neither awaits between reading and writing symbols_to_track.            *)

\* BinanceWebSocketService.set_symbols_to_track
set_symbols_to_track(symbols) ==
    IF symbols.is_none THEN TrackAll
    ELSE [is_none |-> FALSE, symbols |-> {Upper(sym) : sym \in symbols.symbols}]

\* WebSocketWorker.refresh_symbols: the distinct symbols of the active bots, the empty
\* set when the query raises
refresh_symbols(active, db_error) == IF db_error THEN {} ELSE active

\* an unset filter treated as an empty one
Passes_mut_none_blocks(tracked, sym) == sym \in tracked.symbols

\* self.symbols_to_track is None or symbol in self.symbols_to_track
Passes(tracked, sym) == tracked.is_none \/ sym \in tracked.symbols

IngestFrame == UNCHANGED <<stratVars, grid_call, runVars, schedVars, bt, scr, ws, kl, opt, feed, price_key, es>>

InitIngest ==
    /\ bot = MakeBot(1050, 1000, 1000, 5, 1)
    /\ StratIdle
    /\ grid_call = NoGridCall
    /\ RunOff
    /\ SchedOff
    /\ bt = NoBacktest
    /\ scr = NoScreening
    /\ ws = NoStream
    /\ kl = NoKlines
    /\ opt = NoOptimize
    /\ es = NoEmergency
    /\ price_key = NoPrice
    /\ feed = NoFeed
    /\ ing = [NoIngest EXCEPT !.pc = "start"]

\* WebSocketWorker.run: the initial symbol load, which sets the filter only when
\* symbols were found
InitialLoad(active, db_error) ==
    /\ ing.pc = "start"
    /\ LET found == refresh_symbols(active, db_error)
       IN  ing' = [ing EXCEPT
                     !.pc = "running",
                     !.refresh = [done |-> TRUE, found |-> found],
                     !.tracked = IF found # {}
                                 THEN set_symbols_to_track([is_none |-> FALSE, symbols |-> found])
                                 ELSE @]
    /\ IngestFrame

\* one round of periodic_symbol_refresh
PeriodicRefresh(active, db_error) ==
    /\ ing.pc = "running"
    /\ LET found == refresh_symbols(active, db_error)
       IN  ing' = [ing EXCEPT
                     !.refresh = [done |-> TRUE, found |-> found],
                     !.tracked = IF found # {}
                                 THEN set_symbols_to_track([is_none |-> FALSE, symbols |-> found])
                                 ELSE set_symbols_to_track(TrackAll)]
    /\ IngestFrame

\* _stream_messages: one message, a list of tickers each with a symbol and a price;
\* the passing ones are written in one batch under price:<SYMBOL>
StreamMessage(batch) ==
    /\ ing.pc = "running"
    /\ LET prices == {sym \in batch : Passes(ing.tracked, sym)}
       IN  ing' = [ing EXCEPT
                     !.store = @ \cup {Upper(sym) : sym \in prices},
                     !.msg = [done |-> TRUE, batch |-> batch, tracked |-> ing.tracked,
                              written |-> {Upper(sym) : sym \in prices}]]
    /\ IngestFrame

NextIngest ==
    \/ \E active \in SUBSET DbSymbols, db_error \in BOOLEAN : InitialLoad(active, db_error)
    \/ \E active \in SUBSET DbSymbols, db_error \in BOOLEAN : PeriodicRefresh(active, db_error)
    \/ \E batch \in SUBSET TickerSymbols : StreamMessage(batch)

SpecIngest == InitIngest /\ [][NextIngest]_vars

----------------------------------------------------------------------------
(* fetch_klines: pages of at most PAGE_LIMIT candles, walking backwards.   *)
(* The upstream holds candles 1..available, candle k opening at            *)
(* OpenTime(k), and answers a request with the most recent `limit` candles *)
(* that open at or before endTime, oldest first.                           *)

PAGE_LIMIT == 1000

KlineLimits == {0, 1, 2, 999, 1000, 1001, 1500, 2000, 2001}

KlineAvailable == {0, 1, 2, 999, 1000, 1001, 1999, 2000, 2001, 2500}

OpenTime(k) == k * 10

\* GET /api/v3/klines with limit and, when set, endTime
UpstreamKlines(available, limit, end_time) ==
    LET upto == IF end_time = Null THEN available
                ELSE Cardinality({k \in 1..available : OpenTime(k) <= end_time})
        n == Min(limit, upto)
    IN  [i \in 1..n |-> [time |-> OpenTime(upto - n + i)]]

\* the next page bounded by the oldest candle's own open time
NextEndTime_mut_inclusive(data) == data[1].time

\* end_time = data[0][0] - 1
NextEndTime(data) == data[1].time - 1

KlinesFrame == UNCHANGED <<stratVars, grid_call, runVars, schedVars, bt, scr, ws, ing, opt, feed, price_key, es>>

InitKlines ==
    /\ bot = MakeBot(1050, 1000, 1000, 5, 1)
    /\ StratIdle
    /\ grid_call = NoGridCall
    /\ RunOff
    /\ SchedOff
    /\ bt = NoBacktest
    /\ scr = NoScreening
    /\ ws = NoStream
    /\ ing = NoIngest
    /\ opt = NoOptimize
    /\ es = NoEmergency
    /\ price_key = NoPrice
    /\ feed = NoFeed
    /\ \E limit \in KlineLimits, available \in KlineAvailable :
          kl = [NoKlines EXCEPT !.pc = "loop", !.limit = limit, !.available = available,
                                !.remaining = limit]

\* one iteration of the while loop: request a page, prepend it, decide whether to go on
KlinesPage ==
    /\ kl.pc = "loop"
    /\ kl.remaining > 0
    /\ LET batch_size == Min(kl.remaining, PAGE_LIMIT)
           data == UpstreamKlines(kl.available, batch_size, kl.end_time)
           asked == Append(kl.requests, [limit |-> batch_size, end_time |-> kl.end_time])
       IN  IF data = <<>>
           THEN kl' = [kl EXCEPT !.pc = "trim", !.requests = asked]
           ELSE kl' = [kl EXCEPT
                         !.requests = asked,
                         !.all_klines = data \o @,
                         !.remaining = @ - Len(data),
                         !.pc = IF Len(data) < batch_size THEN "trim" ELSE "loop",
                         !.end_time = IF Len(data) < batch_size THEN @ ELSE NextEndTime(data)]
    /\ KlinesFrame

\* remaining has reached 0: the loop ends
KlinesLoopEnd ==
    /\ kl.pc = "loop"
    /\ kl.remaining <= 0
    /\ kl' = [kl EXCEPT !.pc = "trim"]
    /\ KlinesFrame

\* trim to the most recent `limit` candles and return
KlinesReturn ==
    /\ kl.pc = "trim"
    /\ kl' = [kl EXCEPT
                 !.pc = "done",
                 !.result = IF Len(kl.all_klines) > kl.limit
                            THEN SubSeq(kl.all_klines, Len(kl.all_klines) - kl.limit + 1,
                                        Len(kl.all_klines))
                            ELSE kl.all_klines]
    /\ KlinesFrame

NextKlines ==
    \/ KlinesPage
    \/ KlinesLoopEnd
    \/ KlinesReturn

\* the call runs until it returns
SpecKlines == InitKlines /\ [][NextKlines]_vars /\ WF_vars(NextKlines)

----------------------------------------------------------------------------
(* optimize_parameters: a grid search over parameter combinations drawn    *)
(* from the percentiles of the train slice, each run through run_backtest. *)
(* train_ratio is a fraction n/d.                                          *)

MaxOptLen == 5

OptPrices == {985, 1010, 1030, 1050}
OptTotalAmount == 1000
TrainRatios == {[n |-> 7, d |-> 10], [n |-> 9, d |-> 10]}
TopNs == {1, 10}
GridLevelsOptions == <<3, 5>>
SellPercentageOptions == <<1, 5>>

\* one iteration of run_backtest's loop over close_prices
BacktestIteration(b, it, price) ==
    LET r == decide_trade(b, price, it.state, it.previous_price)
    IN  [state |-> r.state, previous_price |-> price,
         acc |-> BacktestFold(it.acc, r.decisions)]

run_backtest(b, close_prices) ==
    LET n == Len(close_prices)
        F[k \in 0..n] ==
          IF k = 0
          THEN [state |-> DefaultState, previous_price |-> Null, acc |-> NoBacktest]
          ELSE BacktestIteration(b, F[k - 1], close_prices[k])
    IN  BacktestResult(b, F[n].acc, IF n = 0 THEN 0 ELSE close_prices[n])

\* sorted(close_prices)[j], j from 1
SortedAt(close_prices, j) ==
    LET I == 1..Len(close_prices)
    IN  CHOOSE v \in {close_prices[i] : i \in I} :
          /\ Cardinality({i \in I : close_prices[i] < v}) < j
          /\ j <= Cardinality({i \in I : close_prices[i] <= v})

\* percentile(p): prices_sorted[min(int(n * p / 100), n - 1)]
Percentile(close_prices, p) ==
    LET n == Len(close_prices)
    IN  SortedAt(close_prices, Min((n * p) \div 100, n - 1) + 1)

\* sorted(set(...)) as a sequence
SortedSeq(S) ==
    [j \in 1..Cardinality(S) |->
        CHOOSE v \in S : Cardinality({w \in S : w < v}) = j - 1]

\* the combinations in the order of the four nested loops; a price range with
\* max_p <= min_p * 1.02 is skipped
generate_parameter_grid(close_prices, grid_levels_options, sell_percentage_options) ==
    LET min_candidates == SortedSeq({Percentile(close_prices, p) : p \in {5, 10, 15, 25}})
        max_candidates == SortedSeq({Percentile(close_prices, p) : p \in {75, 85, 90, 95}})
        nsp == Len(sell_percentage_options)
        ngl == Len(grid_levels_options)
        nmax == Len(max_candidates)
        all == [i \in 1..(Len(min_candidates) * nmax * ngl * nsp) |->
                  [min_price |-> min_candidates[((i - 1) \div (nsp * ngl * nmax)) + 1],
                   max_price |-> max_candidates[(((i - 1) \div (nsp * ngl)) % nmax) + 1],
                   grid_levels |-> grid_levels_options[(((i - 1) \div nsp) % ngl) + 1],
                   sell_percentage |-> sell_percentage_options[((i - 1) % nsp) + 1]]]
    IN  SelectSeq(all, LAMBDA c : ~(c.max_price * 100 <= c.min_price * 102))

\* results.sort(key = total_pnl_pct, reverse = True) sorted the other way round
SortResults_mut_ascending(results) ==
    LET I == 1..Len(results)
        place(i) == 1 + Cardinality({j \in I :
                          \/ results[j].total_pnl_pct < results[i].total_pnl_pct
                          \/ /\ results[j].total_pnl_pct = results[i].total_pnl_pct
                             /\ j < i})
    IN  [p \in I |-> results[CHOOSE i \in I : place(i) = p]]

\* results.sort(key = total_pnl_pct, reverse = True): stable, descending
SortResults(results) ==
    LET I == 1..Len(results)
        place(i) == 1 + Cardinality({j \in I :
                          \/ results[j].total_pnl_pct > results[i].total_pnl_pct
                          \/ /\ results[j].total_pnl_pct = results[i].total_pnl_pct
                             /\ j < i})
    IN  [p \in I |-> results[CHOOSE i \in I : place(i) = p]]

\* the value optimize_parameters returns, or the exception it raises: IndexError
\* from the percentile of an empty train slice, ValueError without combinations
optimize_parameters(o) ==
    LET len == Len(o.close_prices)
        split_idx == (len * o.train_ratio.n) \div o.train_ratio.d
        train_prices == SubSeq(o.close_prices, 1, split_idx)
        test_prices == SubSeq(o.close_prices, split_idx + 1, len)
    IN  IF train_prices = <<>>
        THEN [o EXCEPT !.pc = "raised", !.raised = "IndexError"]
        ELSE
        LET combos == generate_parameter_grid(train_prices, GridLevelsOptions,
                                              SellPercentageOptions)
            results == SortResults(
                [i \in 1..Len(combos) |->
                    run_backtest(MakeBot(combos[i].max_price, combos[i].min_price,
                                         OptTotalAmount, combos[i].grid_levels,
                                         combos[i].sell_percentage), train_prices)])
        IN  IF results = <<>>
            THEN [o EXCEPT !.pc = "raised", !.raised = "ValueError", !.combos = combos]
            ELSE
            LET best == results[1]
                test_result == run_backtest(MakeBot(best.max_price, best.min_price,
                                                    OptTotalAmount, best.grid_levels,
                                                    best.sell_percentage), test_prices)
            IN  [o EXCEPT !.pc = "done",
                          !.combos = combos,
                          !.results = results,
                          !.best_params = best,
                          !.test_result = test_result,
                          !.all_results = SubSeq(results, 1, Min(o.top_n, Len(results))),
                          !.train_size = Len(train_prices),
                          !.test_size = Len(test_prices)]

OptimizeFrame == UNCHANGED <<stratVars, grid_call, runVars, schedVars, bt, scr, ws, ing, kl, feed, price_key, es>>

OptSeqs == UNION {[1..n -> OptPrices] : n \in 0..MaxOptLen}

InitOptimize ==
    /\ bot = MakeBot(1050, 1000, 1000, 3, 1)
    /\ StratIdle
    /\ grid_call = NoGridCall
    /\ RunOff
    /\ SchedOff
    /\ bt = NoBacktest
    /\ scr = NoScreening
    /\ ws = NoStream
    /\ ing = NoIngest
    /\ kl = NoKlines
    /\ es = NoEmergency
    /\ price_key = NoPrice
    /\ feed = NoFeed
    /\ \E close_prices \in OptSeqs, train_ratio \in TrainRatios, top_n \in TopNs :
         opt = [NoOptimize EXCEPT !.pc = "called", !.close_prices = close_prices,
                                  !.train_ratio = train_ratio, !.top_n = top_n]

\* the call of optimize_parameters
Optimize ==
    /\ opt.pc = "called"
    /\ opt' = optimize_parameters(opt)
    /\ OptimizeFrame

NextOptimize == Optimize

SpecOptimize == InitOptimize /\ [][NextOptimize]_vars

----------------------------------------------------------------------------
(* One runtime task from the idle state, every tick with a price and       *)
(* nothing raising, next to run_backtest's replay of the prices it read.   *)

MaxFeedLen == 6

\* one iteration of run_backtest's loop, the decisions kept in emission order
ReplayIteration(b, it, price) ==
    LET r == decide_trade(b, price, it.state, it.previous_price)
    IN  [state |-> r.state, previous_price |-> price, log |-> it.log \o r.decisions]

\* the decisions of run_backtest's loop over close_prices
ReplayDecisions(b, close_prices) ==
    LET F[k \in 0..Len(close_prices)] ==
          IF k = 0
          THEN [state |-> DefaultState, previous_price |-> Null, log |-> <<>>]
          ELSE ReplayIteration(b, F[k - 1], close_prices[k])
    IN  F[Len(close_prices)].log

ParityFrame == UNCHANGED <<bot, grid_call, schedVars, bt, scr, ws, ing, kl, opt, price_key, es>>

\* the task starts: no bot_state, no trade row
ParityStart ==
    /\ LoadStateBody("none")
    /\ UNCHANGED feed
    /\ ParityFrame

\* a tick in which nothing raises
ParityTick(price) ==
    /\ Len(feed) < MaxFeedLen
    /\ TickTradeBody(price)
    /\ faults' = faults
    /\ feed' = Append(feed, price)
    /\ ParityFrame

NextParity ==
    \/ ParityStart
    \/ \E price \in RunPrices : ParityTick(price)

SpecParity == InitRun /\ [][NextParity]_vars

----------------------------------------------------------------------------
(* A runtime whose worker process is killed, between ticks or inside one,  *)
(* and restarted; nothing raises.                                          *)

\* a tick cut short by the death of the process: `written` of its trade rows are
\* committed, and bot_state is written only if the process lived past the last
\* create; the restarted worker dispatches a new task for the active bot
TickCrash(price) ==
    /\ run_pc = "loop"
    /\ db_active
    /\ Len(trades) < MaxRunTrades
    /\ Fault(TRUE)
    /\ LET r == decide_trade(bot, price, state, previous_price)
           n == Len(r.decisions)
       IN  \E written \in 0..n, state_written \in BOOLEAN :
             /\ state_written => written = n
             /\ decisions' = r.decisions
             /\ trades' = RecordDecisions(trades, SubSeq(r.decisions, 1, written))
             /\ bot_state' = IF state_written THEN r.state ELSE bot_state
             /\ last' = [called |-> TRUE, price |-> price, prev |-> previous_price,
                         pre |-> state, create_failed |-> 0,
                         persisted |-> state_written,
                         tick |-> "crash", upstream_fetch |-> FALSE]
    /\ run_pc' = "init"
    /\ state' = DefaultState
    /\ previous_price' = Null
    /\ UNCHANGED db_active
    /\ RunFrame

\* a tick in which nothing raises and the process lives
TickNoFault(price) ==
    /\ TickTrade(price)
    /\ faults' = faults

NextCrash ==
    \/ LoadState("none")
    \/ \E price \in RunPrices : TickNoFault(price)
    \/ \E price \in RunPrices : TickCrash(price)
    \/ WorkerRestart

SpecCrash == InitRun /\ [][NextCrash]_vars

----------------------------------------------------------------------------
\* The price key of the runtime's symbol: written with a time to live by the stream
\* and by cache_prices, read by the runtime at each tick.  age counts the whole
\* seconds since the write; the store drops the key when age reaches ttl.

STREAM_PRICE_TTL == 10

BATCH_PRICE_TTL == 5

PriceFrame == UNCHANGED <<bot, grid_call, schedVars, bt, scr, ws, ing, kl, opt, feed, es>>

\* RedisCache.set_prices_batch / set_price: SETEX replaces value and time to live
set_price(price, ttl) == [present |-> TRUE, price |-> price, ttl |-> ttl, age |-> 0]

\* _stream_messages writes the batch of a ticker message
StreamWrite(price) ==
    /\ price_key' = set_price(price, STREAM_PRICE_TTL)
    /\ UNCHANGED <<stratVars, runVars>>
    /\ PriceFrame

\* cache_prices writes the polled batch with the default time to live
PollWrite(price) ==
    /\ price_key' = set_price(price, BATCH_PRICE_TTL)
    /\ UNCHANGED <<stratVars, runVars>>
    /\ PriceFrame

\* one second passes and the key is never dropped
SecondElapses_mut_no_expiry ==
    /\ price_key.present
    /\ price_key.age < STREAM_PRICE_TTL + 1
    /\ price_key' = [price_key EXCEPT !.age = @ + 1]
    /\ UNCHANGED <<stratVars, runVars>>
    /\ PriceFrame

\* one second passes: the key is gone once its time to live has elapsed
SecondElapses ==
    /\ price_key.present
    /\ price_key' = IF price_key.age + 1 >= price_key.ttl
                    THEN NoPrice
                    ELSE [price_key EXCEPT !.age = @ + 1]
    /\ UNCHANGED <<stratVars, runVars>>
    /\ PriceFrame

\* RedisCache.get_price: None when the key holds no data
get_price(key) == IF key.present THEN key.price ELSE Null

PriceLoadState ==
    /\ LoadStateBody("none")
    /\ UNCHANGED price_key
    /\ PriceFrame

\* a tick of the runtime that reads a price from the store, nothing raising
PriceTickTrade ==
    /\ get_price(price_key) # Null
    /\ TickTradeBody(get_price(price_key))
    /\ faults' = faults
    /\ UNCHANGED price_key
    /\ PriceFrame

\* a tick of the runtime that finds no price in the store
PriceTickNoPrice ==
    /\ get_price(price_key) = Null
    /\ TickNoPriceBody
    /\ UNCHANGED price_key
    /\ PriceFrame

NextPrice ==
    \/ PriceLoadState
    \/ \E price \in RunPrices : StreamWrite(price)
    \/ \E price \in RunPrices : PollWrite(price)
    \/ SecondElapses
    \/ PriceTickTrade
    \/ PriceTickNoPrice

SpecPrice == InitRun /\ [][NextPrice]_vars

----------------------------------------------------------------------------
\* emergency_sell, a request served by the API process while the bot's runtime
\* ticks in the worker.  Its steps are the statements that read or write shared
\* data: the read of the trade log, the SELL rows, and the teardown.

EmergencyFrame == UNCHANGED <<bot, grid_call, schedVars, bt, scr, ws, ing, kl, opt, feed, price_key>>

\* FIFO matching: a buy row opens, a sell row closes the oldest open buy
RECURSIVE OpenBuysFrom(_, _, _)
OpenBuysFrom(ts, k, buys) ==
    IF k > Len(ts) THEN buys
    ELSE OpenBuysFrom(ts, k + 1,
             IF ts[k].trade_type = "buy" THEN Append(buys, ts[k])
             ELSE IF ts[k].trade_type = "sell" /\ buys # <<>> THEN Tail(buys)
             ELSE buys)

OpenBuys(ts) == OpenBuysFrom(SortByCreatedAt(ts), 1, <<>>)

\* list_by_bot, sort, FIFO matching and the price read: 400 when nothing is open
EmergencyRead ==
    /\ es.pc \in {"idle", "rejected"}
    /\ \E ts \in list_by_bot(trades), price \in RunPrices :
          LET buys == OpenBuys(ts)
          IN  es' = IF buys = <<>>
                    THEN [pc |-> "rejected", buys |-> <<>>, price |-> Null]
                    ELSE [pc |-> "selling", buys |-> buys, price |-> price]
    /\ UNCHANGED <<stratVars, runVars>>
    /\ EmergencyFrame

\* one SELL row per buy found open by the read, at the price read
EmergencySell ==
    /\ es.pc = "selling"
    /\ trades' = LogDecisions(trades,
                     [i \in 1..Len(es.buys) |->
                         Decision("sell", es.buys[i].quantity, es.price)])
    /\ es' = [es EXCEPT !.pc = "teardown"]
    /\ UNCHANGED <<bot, state, previous_price, decisions, last, runVars>>
    /\ EmergencyFrame

\* delete_bot_state, then deactivate, then the response
EmergencyTeardown ==
    /\ es.pc = "teardown"
    /\ bot_state' = NoState
    /\ db_active' = FALSE
    /\ es' = [es EXCEPT !.pc = "returned"]
    /\ UNCHANGED <<stratVars, run_pc, faults>>
    /\ EmergencyFrame

NextEmergency ==
    \/ LoadState("none")
    \/ \E price \in RunPrices : TickNoFault(price)
    \/ TickInactive
    \/ EmergencyRead
    \/ EmergencySell
    \/ EmergencyTeardown

SpecEmergency == InitRun /\ [][NextEmergency]_vars

----------------------------------------------------------------------------
\* reconstruct_state_from_trades applied to trade lists in any order, with
\* created_at values that may repeat

MaxRecLen == 3

RecPrices == {1010, 1030}

RecTrades ==
    { Trade(Decision(side, BuyQty(b, price), price), at) :
        b \in RunBots, side \in {"buy"}, price \in RecPrices, at \in 1..MaxRecLen }
    \cup
    { Trade(Decision(side, BuyQty(b, price), price), at) :
        b \in RunBots, side \in {"sell"}, price \in {1030}, at \in 1..MaxRecLen }

RecLogs == UNION { [1..n -> RecTrades] : n \in 0..MaxRecLen }

InitReconstruct ==
    /\ bot \in RunBots
    /\ trades \in RecLogs
    /\ state = DefaultState
    /\ previous_price = Null
    /\ decisions = <<>>
    /\ last = NoCall
    /\ grid_call = NoGridCall
    /\ RunOff
    /\ SchedOff
    /\ JobsOff

\* the state rebuilt from the list as it is handed over
Reconstruct ==
    /\ last.tick = "none"
    /\ state' = reconstruct_state_from_trades(bot, trades)
    /\ last' = [last EXCEPT !.tick = "reconstruct"]
    /\ UNCHANGED <<bot, previous_price, decisions, trades, grid_call, runVars, schedVars, jobVars>>

NextReconstruct == Reconstruct

SpecReconstruct == InitReconstruct /\ [][NextReconstruct]_vars

----------------------------------------------------------------------------
\* The stream with its message loop and a stop request.  stop() runs as a task of
\* the same event loop and may be scheduled at any await of connect_and_stream.

\* _stream_messages: the next message of the open connection is parsed and its
\* batch written; the loop reads is_running nowhere
WsMessage(price) ==
    /\ ws.pc = "streaming"
    /\ price_key' = set_price(price, STREAM_PRICE_TTL)
    /\ UNCHANGED <<stratVars, grid_call, runVars, schedVars, bt, scr, ws, ing, kl, opt, feed, es>>

NextStop ==
    \/ WsConnectOk
    \/ WsFail
    \/ WsCleanClose
    \/ WsStop
    \/ \E price \in RunPrices : WsMessage(price)

SpecStop == InitStream /\ [][NextStop]_vars

----------------------------------------------------------------------------
\* decide_trade on configurations that the validation upstream should reject

InvalidBots ==
    { MakeBot(1050, 1000, 1000, 0, 1),      \* grid_levels = 0
      MakeBot(1050, 1000, 1000, -1, 1),     \* grid_levels < 0
      MakeBot(1010, 1010, 1000, 3, 1),      \* max_price = min_price
      MakeBot(1000, 1050, 1000, 3, 1) }     \* max_price < min_price

InvalidConfig(b) == b.max_price <= b.min_price \/ b.grid_levels <= 0

\* qty = bot.total_amount / bot.grid_levels / current_price in the first buy of a
\* cycle: ZeroDivisionError when a divisor is 0
decide_trade_raises(b, price, st) ==
    /\ st.positions = <<>>
    /\ InRange(b, price)
    /\ (b.grid_levels = 0 \/ price = 0)

InitInvalid ==
    /\ bot \in InvalidBots
    /\ StratIdle
    /\ grid_call = NoGridCall
    /\ RunOff
    /\ SchedOff
    /\ JobsOff

\* one call of decide_trade: it returns decisions and state, or raises before it has
\* touched the state
TickInvalid(price) ==
    /\ Len(trades) < MaxTrades
    /\ IF decide_trade_raises(bot, price, state)
       THEN /\ last' = [called |-> TRUE, price |-> price, prev |-> previous_price,
                        pre |-> state, create_failed |-> 0, persisted |-> FALSE,
                        tick |-> "raised", upstream_fetch |-> FALSE]
            /\ decisions' = <<>>
            /\ UNCHANGED <<state, trades, previous_price>>
       ELSE LET r == decide_trade(bot, price, state, previous_price)
            IN  /\ decisions' = r.decisions
                /\ state' = r.state
                /\ trades' = LogDecisions(trades, r.decisions)
                /\ last' = [called |-> TRUE, price |-> price, prev |-> previous_price,
                            pre |-> state, create_failed |-> 0, persisted |-> FALSE,
                            tick |-> "trade", upstream_fetch |-> FALSE]
                /\ previous_price' = price
    /\ UNCHANGED <<bot, grid_call, runVars, schedVars, jobVars>>

NextInvalid == \E price \in Prices : TickInvalid(price)

SpecInvalid == InitInvalid /\ [][NextInvalid]_vars

----------------------------------------------------------------------------
(* Claims *)

Sells(ds) == SelectSeq(ds, LAMBDA d : d.side = "sell")
Buys(ds) == SelectSeq(ds, LAMBDA d : d.side = "buy")

\* the elements of s at the indices in I, in order
SubSeqAt(s, I) ==
    LET F[k \in 0..Len(s)] ==
          IF k = 0 THEN <<>>
          ELSE IF k \in I THEN Append(F[k - 1], s[k]) ELSE F[k - 1]
    IN  F[Len(s)]

ResetTriple(st) ==
    st.lowest_price = Null /\ st.grid_prices = <<>> /\ st.next_grid_index = 0

\* C1: in a call with open positions, exactly the positions with
\* price/entry - 1 >= sell_percentage/100 and price <= highest*(1 - SELL_PULLBACK_PCT)
\* (highest including the current tick) are sold: one SELL each, in order, with the
\* position's qty at the current price; the others stay, in order.
C1_SellIffGainAndPullback ==
    (last.called /\ last.pre.positions # <<>>) =>
        LET pre == last.pre.positions
            p == last.price
            hi(i) == IF p > pre[i].highest THEN p ELSE pre[i].highest
            sold == {i \in 1..Len(pre) :
                        /\ (p - pre[i].entry) * 100 >= bot.sell_percentage * pre[i].entry
                        /\ p * PctScale <= hi(i) * (PctScale - SELL_PULLBACK_PCT)}
            soldSeq == SubSeqAt(pre, sold)
            keptSeq == SubSeqAt(pre, (1..Len(pre)) \ sold)
            sells == Sells(decisions)
        IN  /\ Len(sells) = Len(soldSeq)
            /\ \A k \in 1..Len(sells) :
                  sells[k].entry_price = p /\ sells[k].quantity = soldSeq[k].qty
            /\ Len(state.positions) = Len(keptSeq) + Len(Buys(decisions))
            /\ \A k \in 1..Len(keptSeq) :
                  /\ state.positions[k].entry = keptSeq[k].entry
                  /\ state.positions[k].qty = keptSeq[k].qty

\* a call that sold the younger of two positions and kept the older
C1_Witness ==
    /\ last.called
    /\ Len(last.pre.positions) = 2
    /\ Len(Sells(decisions)) = 1
    /\ Len(state.positions) = 1
    /\ state.positions[1].entry = last.pre.positions[1].entry
    /\ last.pre.positions[2].entry # last.pre.positions[1].entry

\* C2: when a position remains after the sell scan, a grid BUY is emitted iff
\* previous_price is not null, next_grid_index < len(grid_prices), price <= max_price,
\* price <= grid_prices[next_grid_index], price < previous_price and
\* price >= lowest_price*(1 + BUY_PULLBACK_PCT) with lowest_price already lowered to
\* the current price; the buy raises next_grid_index by 1, appends one position
\* (entry = highest = price) and sets lowest_price to the price.
C2_GridBuyIff ==
    (last.called /\ Len(last.pre.positions) > Len(Sells(decisions))) =>
        LET pre == last.pre
            p == last.price
            low == IF pre.lowest_price = Null \/ p < pre.lowest_price
                   THEN p ELSE pre.lowest_price
            cond == /\ last.prev # Null
                    /\ pre.next_grid_index < Len(pre.grid_prices)
                    /\ p <= bot.max_price
                    /\ p * pre.grid_prices[pre.next_grid_index + 1].d
                          <= pre.grid_prices[pre.next_grid_index + 1].n
                    /\ p < last.prev
                    /\ p * PctScale >= low * (PctScale + BUY_PULLBACK_PCT)
            n == Len(state.positions)
        IN  /\ (Len(Buys(decisions)) >= 1) <=> cond
            /\ cond =>
                  /\ state.next_grid_index = pre.next_grid_index + 1
                  /\ n = Len(pre.positions) - Len(Sells(decisions)) + 1
                  /\ state.positions[n].entry = p
                  /\ state.positions[n].highest = p
                  /\ state.lowest_price = p

\* a call with open positions that emitted a grid BUY
C2_Witness ==
    /\ last.called
    /\ last.pre.positions # <<>>
    /\ Len(Buys(decisions)) = 1
    /\ Len(state.positions) = Len(last.pre.positions) + 1

\* C3: a call with no positions emits exactly one BUY at the current price with
\* quantity total_amount / grid_levels / price if min_price <= price <= max_price,
\* and otherwise emits nothing and returns the state unchanged; never a SELL.
C3_IdleCall ==
    (last.called /\ last.pre.positions = <<>>) =>
        LET p == last.price
        IN  IF bot.min_price <= p /\ p <= bot.max_price
            THEN /\ Len(decisions) = 1
                 /\ decisions[1].side = "buy"
                 /\ decisions[1].entry_price = p
                 /\ decisions[1].quantity.n * (bot.grid_levels * p)
                       = bot.total_amount * decisions[1].quantity.d
            ELSE decisions = <<>> /\ state = last.pre

\* an idle call at max_price itself that bought, after an earlier cycle was closed
C3_Witness ==
    /\ last.called
    /\ last.pre.positions = <<>>
    /\ last.price = bot.max_price
    /\ Len(decisions) = 1
    /\ Len(trades) > 1

\* C4: one decide_trade call returns at most one decision with side = buy.
C4_AtMostOneBuy ==
    Len(Buys(decisions)) <= 1

\* a call that emitted a SELL and a grid BUY together
C4_Witness ==
    /\ last.called
    /\ Len(Sells(decisions)) >= 1
    /\ Len(Buys(decisions)) = 1

\* C5: positions = [] implies lowest_price = null, grid_prices = [] and
\* next_grid_index = 0.
C5_IdleImpliesReset ==
    state.positions = <<>> => ResetTriple(state)

\* the call that sold the last open position
C5_Witness ==
    /\ last.called
    /\ last.pre.positions # <<>>
    /\ last.pre.grid_prices # <<>>
    /\ state.positions = <<>>

\* C6 as stated: for every valid configuration, grid_levels = 1 included, the reset
\* triple holds only when positions = [].
C6_ResetTripleOnlyWhenIdle ==
    ResetTriple(state) => state.positions = <<>>

\* C6 amended: with grid_levels >= 2 the reset triple holds only when positions = [].
C6_ResetTripleOnlyWhenIdle_GridLevels2 ==
    bot.grid_levels >= 2 => (ResetTriple(state) => state.positions = <<>>)

\* grid_levels >= 2, first buy at max_price: lowest_price is null and next_grid_index
\* is 0 with a position open, and only the non-empty grid tells the state from idle
C6_Witness ==
    /\ bot.grid_levels >= 2
    /\ last.called
    /\ state.positions # <<>>
    /\ state.lowest_price = Null
    /\ state.next_grid_index = 0
    /\ state.grid_prices # <<>>

\* C7: compute_grid(max, min, N) is empty when N <= 1 or max <= min; otherwise it has
\* N-1 elements, strictly decreasing, the i-th equal to max - i*(max-min)/N, each
\* strictly between min and max.
C7_ComputeGrid ==
    grid_call.done =>
        LET mx == grid_call.max_price
            mn == grid_call.min_price
            N == grid_call.grid_levels
            g == grid_call.result
        IN  IF N <= 1 \/ mx <= mn
            THEN g = <<>>
            ELSE /\ Len(g) = N - 1
                 /\ \A i \in 1..Len(g) :
                       /\ g[i].d > 0
                       /\ g[i].n * N = (mx * N - i * (mx - mn)) * g[i].d
                       /\ mn * g[i].d < g[i].n
                       /\ g[i].n < mx * g[i].d
                 /\ \A i \in 1..(Len(g) - 1) :
                       g[i + 1].n * g[i].d < g[i].n * g[i + 1].d

\* a call with N >= 3 and max > min, whose step is not an integer
C7_Witness ==
    /\ grid_call.done
    /\ grid_call.grid_levels >= 3
    /\ grid_call.max_price > grid_call.min_price
    /\ (grid_call.max_price - grid_call.min_price) % grid_call.grid_levels # 0
    /\ Len(grid_call.result) = grid_call.grid_levels - 1

\* C8: reconstruct_state_from_trades(cfg, T), T the decisions logged in emission
\* order, returns the live positions: same length, same entry and quantity in order.
C8_ReconstructRoundTrip ==
    LET r == reconstruct_state_from_trades(bot, trades).positions
    IN  /\ Len(r) = Len(state.positions)
        /\ \A i \in 1..Len(r) :
              /\ r[i].entry = state.positions[i].entry
              /\ r[i].qty = state.positions[i].qty

\* C9: at every moment at most one run_trading_bot task is running for a given bot
\* id, under any interleaving of creation, deactivation, reactivation and
\* worker-startup restart_active_bots dispatches.
C9_AtMostOneRuntimePerBot ==
    \A b \in BotIds : running[b] <= 1

HasBuyRow(pos) ==
    \E i \in 1..Len(trades) :
        /\ trades[i].trade_type = "buy"
        /\ trades[i].price = pos.entry
        /\ trades[i].quantity = pos.qty

\* C10: if recording a decision fails, the runtime's state, in memory and as
\* persisted by this or a later tick, is not advanced past that decision: after the
\* failing tick the positions reflect only the decisions recorded before it, and no
\* position, in memory or in bot_state, is without its trade row.
C10_FailedDecisionNotApplied ==
    /\ (run_pc = "loop" /\ last.called /\ last.create_failed > 0) =>
          LET recorded == SubSeq(decisions, 1, last.create_failed - 1)
          IN  Len(state.positions) =
                Len(last.pre.positions) + Len(Buys(recorded)) - Len(Sells(recorded))
    /\ \A i \in 1..Len(state.positions) : HasBuyRow(state.positions[i])
    /\ bot_state # NoState =>
          \A i \in 1..Len(bot_state.positions) : HasBuyRow(bot_state.positions[i])

\* C11: a tick that wrote its state to bot_state has appended the rows of all its
\* decisions, in order, to the trade log.
C11_TradesBeforeState ==
    (last.called /\ last.persisted) =>
        LET n == Len(decisions)
            k == Len(trades) - n
        IN  /\ k >= 0
            /\ \A i \in 1..n :
                  /\ trades[k + i].trade_type = decisions[i].side
                  /\ trades[k + i].price = decisions[i].entry_price
                  /\ trades[k + i].quantity = decisions[i].quantity

\* a tick with a decision whose state was written and is the stored bot_state
C11_Witness ==
    /\ last.called
    /\ last.persisted
    /\ Len(decisions) >= 1
    /\ bot_state = state
    /\ Len(trades) >= 2

\* C12: with the bot inactive, the first tick of the runtime in which nothing raises
\* (well within 30 ticks) ends the task with bot_state deleted and appends no trade
\* row; no step of a runtime whose bot is inactive appends a trade row.
C12_InactiveExits ==
    [][ (run_pc = "loop" /\ ~db_active) =>
           /\ trades' = trades
           /\ faults' = faults => (run_pc' = "exited" /\ bot_state' = NoState) ]_vars

\* a runtime that traded, wrote its state, was deactivated and has returned
C12_Witness ==
    /\ run_pc = "exited"
    /\ ~db_active
    /\ bot_state = NoState
    /\ last.persisted
    /\ Len(trades) >= 1

\* C13: while the bot is active its runtime is starting or looping, whatever has
\* raised during the state load or during a tick; it never ends on a failure.
C13_NoTerminationOnFailure ==
    db_active => run_pc \in {"init", "loop"}

\* C14: a tick in which the price store has no price for the symbol does not call
\* decide_trade, appends no trade row, does not write bot_state, leaves the state in
\* memory and previous_price unchanged and fetches no price upstream; the loop goes on.
C14_NoPriceTickChangesNothing ==
    [][ (last'.tick = "no_price" /\ last.tick # "no_price") =>
           /\ last' = [last EXCEPT !.tick = "no_price"]
           /\ ~last'.upstream_fetch
           /\ UNCHANGED <<state, previous_price, decisions, trades, bot_state>>
           /\ run_pc' = "loop" ]_vars

\* a tick without a price, after a tick that bought and wrote its state
C14_Witness ==
    /\ last.tick = "no_price"
    /\ last.called
    /\ run_pc = "loop"
    /\ state.positions # <<>>
    /\ bot_state = state
    /\ previous_price = last.price

\* C15: in the decision list of one decide_trade call, which is the order in which
\* the rows are appended, every BUY precedes every SELL.
C15_BuysBeforeSells ==
    \A i, j \in 1..Len(decisions) :
        (decisions[i].side = "sell" /\ decisions[j].side = "buy") => j < i

\* C16: run_backtest returns num_trades = num_buys + num_sells, num_sells <= num_buys
\* and final_open_positions = num_buys - num_sells.
C16_BacktestCounts ==
    bt.pc = "done" =>
        /\ bt.result.num_trades = bt.result.num_buys + bt.result.num_sells
        /\ bt.result.num_sells <= bt.result.num_buys
        /\ bt.result.final_open_positions = bt.result.num_buys - bt.result.num_sells

\* a backtest that returned with sells made and a position still open
C16_Witness ==
    /\ bt.pc = "done"
    /\ bt.result.num_sells >= 1
    /\ bt.result.final_open_positions >= 1
    /\ bt.result.num_buys >= 2

\* C17: whatever the symbols' outcomes and whether or not the commit of the results
\* fails, the task eventually publishes a blob with status = completed,
\* processed_symbols = total_symbols and completed_at set, and publishes nothing
\* after it.
C17_ScreeningCompletes ==
    <>[](/\ scr.blob # NoBlob
         /\ scr.blob.status = "completed"
         /\ scr.blob.processed_symbols = scr.blob.total_symbols
         /\ scr.blob.total_symbols = scr.total
         /\ scr.blob.completed_at # "null")

\* a completed task that had failing symbols and whose commit failed
C17_Witness ==
    /\ scr.pc = "done"
    /\ scr.blob.status = "completed"
    /\ scr.total = MaxFreeSymbols
    /\ Len(scr.results) < scr.total
    /\ scr.results # <<>>
    /\ scr.db_rows = <<>>

\* C18: over the blobs of one task, processed_symbols starts at 0, never decreases,
\* is raised by exactly one by each symbol whatever its outcome, never exceeds
\* total_symbols, and progress stays within 0..100.
C18_ProcessedCounts ==
    /\ [](scr.blob # NoBlob =>
             /\ scr.blob.processed_symbols <= scr.blob.total_symbols
             /\ scr.blob.progress >= 0
             /\ scr.blob.progress <= 100)
    /\ [][ /\ (scr.blob = NoBlob /\ scr'.blob # NoBlob) => scr'.blob.processed_symbols = 0
           /\ (scr.blob # NoBlob) =>
                 /\ scr'.blob # NoBlob
                 /\ scr'.blob.processed_symbols >= scr.blob.processed_symbols
                 /\ scr'.i = scr.i + 1 =>
                       scr'.blob.processed_symbols = scr.blob.processed_symbols + 1 ]_vars

\* all of a task's symbols handled, with a result, a short series and an exception
\* among the outcomes
C18_Witness ==
    /\ scr.pc = "loop"
    /\ scr.total = MaxFreeSymbols
    /\ scr.i = scr.total
    /\ scr.blob.processed_symbols = scr.total
    /\ Len(scr.results) = 1
    /\ scr.blob.progress = 100

\* C19: in every blob the results are sorted by best_pnl_pct in non-increasing order,
\* are at most 50, and are the rows with the highest best_pnl_pct collected so far.
C19_TopResultsSorted ==
    scr.blob # NoBlob =>
        LET rs == scr.blob.results
            shown == {rs[k].symbol : k \in 1..Len(rs)}
        IN  /\ Len(rs) <= 50
            /\ Len(rs) = IF Len(scr.results) <= 50 THEN Len(scr.results) ELSE 50
            /\ \A k \in 1..(Len(rs) - 1) : rs[k].best_pnl_pct >= rs[k + 1].best_pnl_pct
            /\ Cardinality(shown) = Len(rs)
            /\ \A k \in 1..Len(rs) : \E j \in 1..Len(scr.results) : scr.results[j] = rs[k]
            /\ \A j \in 1..Len(scr.results) :
                  scr.results[j].symbol \notin shown =>
                      \A k \in 1..Len(rs) : rs[k].best_pnl_pct >= scr.results[j].best_pnl_pct

\* a blob published with more than 50 rows collected, one of the first rows left out
C19_Witness ==
    /\ scr.blob # NoBlob
    /\ Len(scr.results) > 50
    /\ Len(scr.blob.results) = 50
    /\ \E j \in 1..MaxFreeSymbols :
          /\ j <= Len(scr.results)
          /\ \A k \in 1..50 : scr.blob.results[k].symbol # scr.results[j].symbol

\* C20: the delay slept before reconnecting is 5 s for the first failure after a
\* successful connection (and for the first failure of all), double the previous
\* delay for each further consecutive failure, and never more than 60 s.
C20_Backoff ==
    \A k \in 1..Len(ws.log) :
        ws.log[k] # 0 =>
            /\ ws.log[k] <= 60
            /\ ws.log[k] = IF k = 1 \/ ws.log[k - 1] = 0 THEN 5
                           ELSE IF 2 * ws.log[k - 1] <= 60 THEN 2 * ws.log[k - 1] ELSE 60

\* six consecutive failures (5, 10, 20, 40, 60, 60) after a successful connection
C20_Witness ==
    /\ Len(ws.log) = 7
    /\ ws.log[1] = 0
    /\ ws.log[6] = 60
    /\ ws.log[7] = 60

\* C21: a ticker of a batch is written to the price store iff the tracked set is unset
\* or holds its symbol; after a refresh that found no active symbol the tracked set
\* is unset, and after one that found symbols exactly those symbols pass.
C21_TrackedFilter ==
    /\ ing.msg.done =>
          /\ \A sym \in TickerSymbols :
                sym \in ing.msg.written <=>
                    (sym \in ing.msg.batch
                       /\ (ing.msg.tracked.is_none \/ sym \in ing.msg.tracked.symbols))
          /\ ing.msg.written \subseteq ing.store
    /\ ing.refresh.done =>
          IF ing.refresh.found = {}
          THEN ing.tracked.is_none
          ELSE /\ ~ing.tracked.is_none
               /\ \A sym \in TickerSymbols :
                     sym \in ing.tracked.symbols <=>
                         \E d \in ing.refresh.found : d = sym \/ (d = "btcusdc" /\ sym = "BTCUSDC")

\* a batch filtered by a set found under a lower-case symbol: one ticker written, the
\* others dropped
C21_Witness ==
    /\ ing.msg.done
    /\ ing.refresh.found = {"btcusdc"}
    /\ ing.msg.tracked = ing.tracked
    /\ ing.msg.batch = TickerSymbols
    /\ ing.msg.written = {"BTCUSDC"}

\* C22: fetch_klines returns; its result is the most recent min(limit, available)
\* candles, oldest first, without duplicate or gap; every request asks for at most
\* 1000 candles; every request after the first has endTime = open time of the oldest
\* candle received so far - 1; the requests stop once limit candles are accumulated
\* or a page came back short.
C22_FetchKlines ==
    /\ <>(kl.pc = "done")
    /\ [](kl.pc = "done" =>
             LET n == IF kl.limit <= kl.available THEN kl.limit ELSE kl.available
             IN  /\ Len(kl.result) = n
                 /\ \A i \in 1..n : kl.result[i].time = (kl.available - n + i) * 10)
    /\ [](\A r \in 1..Len(kl.requests) :
             /\ kl.requests[r].limit <= 1000
             /\ r = 1 => kl.requests[r].end_time = Null)
    /\ [][ Len(kl'.requests) = Len(kl.requests) + 1 =>
             /\ Len(kl.all_klines) < kl.limit
             /\ kl.requests # <<>> =>
                   /\ kl'.requests[Len(kl'.requests)].end_time = kl.all_klines[1].time - 1
                   /\ Len(kl.all_klines) = 1000 * Len(kl.requests) ]_vars

\* a call that needed three pages and got the last one short
C22_Witness ==
    /\ kl.pc = "done"
    /\ kl.limit = 2001
    /\ kl.available = 2001
    /\ Len(kl.requests) = 3
    /\ kl.requests[3].limit = 1
    /\ Len(kl.result) = 2001

\* C23: when optimize_parameters returns, best_params is the train-slice backtest of
\* a generated combination and no generated combination has a larger total_pnl_pct
\* on the train slice; all_results is in non-increasing order of total_pnl_pct and
\* has at most top_n entries; test_result is the backtest of best_params'
\* min_price, max_price, grid_levels and sell_percentage on the test slice;
\* train_size = floor(len(prices) * train_ratio) and train_size + test_size =
\* len(prices).
C23_Optimizer ==
    opt.pc = "done" =>
        LET len == Len(opt.close_prices)
            train == SubSeq(opt.close_prices, 1, opt.train_size)
            test == SubSeq(opt.close_prices, opt.train_size + 1, len)
            TrainRun(c) == run_backtest(MakeBot(c.max_price, c.min_price, OptTotalAmount,
                                                c.grid_levels, c.sell_percentage), train)
            best == opt.best_params
        IN  /\ \E i \in 1..Len(opt.combos) : best = TrainRun(opt.combos[i])
            /\ \A i \in 1..Len(opt.combos) :
                  TrainRun(opt.combos[i]).total_pnl_pct <= best.total_pnl_pct
            /\ \A i \in 1..(Len(opt.all_results) - 1) :
                  opt.all_results[i].total_pnl_pct >= opt.all_results[i + 1].total_pnl_pct
            /\ Len(opt.all_results) <= opt.top_n
            /\ opt.test_result =
                  run_backtest(MakeBot(best.max_price, best.min_price, OptTotalAmount,
                                       best.grid_levels, best.sell_percentage), test)
            /\ opt.train_size * opt.train_ratio.d <= len * opt.train_ratio.n
            /\ len * opt.train_ratio.n < (opt.train_size + 1) * opt.train_ratio.d
            /\ opt.train_size + opt.test_size = len

\* a return with more results than top_n, two different total_pnl_pct among them and
\* a test slice on which best_params trades
C23_Witness ==
    /\ opt.pc = "done"
    /\ Len(opt.results) > opt.top_n
    /\ \E i, j \in 1..Len(opt.results) :
         opt.results[i].total_pnl_pct # opt.results[j].total_pnl_pct
    /\ opt.test_result.num_trades > 0

\* C24: after an idle-branch BUY at price p the returned state has exactly one
\* position with entry = p, highest = p and qty = total_amount / grid_levels / p,
\* grid_prices = compute_grid(max_price, min_price, grid_levels), lowest_price =
\* null, and next_grid_index is the smallest index i with grid_prices[i] < p, or
\* len(grid_prices) when no grid level is strictly below p.
C24_IdleBuyState ==
    (last.called /\ last.pre.positions = <<>> /\ Len(Buys(decisions)) = 1) =>
        LET p == last.price
            g == state.grid_prices
            k == state.next_grid_index
        IN  /\ Len(state.positions) = 1
            /\ state.positions[1].entry = p
            /\ state.positions[1].highest = p
            /\ state.positions[1].qty.n * (bot.grid_levels * p)
                  = bot.total_amount * state.positions[1].qty.d
            /\ g = compute_grid(bot.max_price, bot.min_price, bot.grid_levels)
            /\ state.lowest_price = Null
            /\ k \in 0..Len(g)
            /\ \A i \in 1..k : g[i].n >= p * g[i].d
            /\ k < Len(g) => g[k + 1].n < p * g[k + 1].d

\* an idle-branch BUY at a price equal to a grid level that is not the last one
C24_Witness ==
    /\ last.called
    /\ last.pre.positions = <<>>
    /\ Len(Buys(decisions)) = 1
    /\ \E i \in 1..Len(state.grid_prices) :
         state.grid_prices[i].n = last.price * state.grid_prices[i].d
    /\ 0 < state.next_grid_index
    /\ state.next_grid_index < Len(state.grid_prices)

C26_GridFixedInCycle ==
    [][ (last'.called /\ state.positions # <<>> /\ state'.positions # <<>>) =>
            /\ state'.grid_prices = state.grid_prices
            /\ state'.next_grid_index >= state.next_grid_index
            /\ Buys(decisions') # <<>> => state'.next_grid_index > state.next_grid_index
      ]_vars

\* the second grid buy of a cycle
C26_Witness ==
    /\ last.called
    /\ last.pre.positions # <<>>
    /\ Buys(decisions) # <<>>
    /\ state.grid_prices = last.pre.grid_prices
    /\ last.pre.next_grid_index >= 1
    /\ state.next_grid_index = last.pre.next_grid_index + 1
    /\ Len(state.positions) >= 3

\* C27: in the state decide_trade returns, and in the state
\* reconstruct_state_from_trades returns for the trade log so far,
\* 0 <= next_grid_index <= len(grid_prices).
C27_NextGridIndexInRange ==
    LET r == reconstruct_state_from_trades(bot, trades)
    IN  /\ 0 <= state.next_grid_index
        /\ state.next_grid_index <= Len(state.grid_prices)
        /\ 0 <= r.next_grid_index
        /\ r.next_grid_index <= Len(r.grid_prices)

\* C28: after a tick without failure, whose decisions are all in the trade log and
\* whose returned state is the one persisted, reconstruct_state_from_trades on the
\* trade log gives the grid_prices and the next_grid_index of that state.
C28_ReconstructGridIndex ==
    last.called =>
        LET r == reconstruct_state_from_trades(bot, trades)
        IN  /\ r.grid_prices = state.grid_prices
            /\ r.next_grid_index = state.next_grid_index

\* C29: after every tick of run_backtest the open-buys list equals the strategy
\* state's positions: same length and, position by position, the same entry price
\* and quantity.
C29_OpenBuysMirrorPositions ==
    bt.pc = "loop" =>
        /\ Len(bt.open_buys) = Len(state.positions)
        /\ \A i \in 1..Len(bt.open_buys) :
              /\ bt.open_buys[i].entry_price = state.positions[i].entry
              /\ bt.open_buys[i].quantity = state.positions[i].qty

\* C30: a runtime started from the idle state, with a price on every tick and no
\* failure, has appended to the trade log exactly the (side, price, quantity)
\* sequence that the replay of decide_trade in run_backtest produces for the
\* prices the runtime read.
C30_RuntimeMatchesBacktest ==
    run_pc = "loop" =>
        LET ds == ReplayDecisions(bot, feed)
        IN  /\ Len(trades) = Len(ds)
            /\ \A i \in 1..Len(ds) :
                  /\ trades[i].trade_type = ds[i].side
                  /\ trades[i].price = ds[i].entry_price
                  /\ trades[i].quantity = ds[i].quantity

\* a runtime that made a first buy, a grid buy and a sell
C30_Witness ==
    /\ run_pc = "loop"
    /\ Len(feed) >= 4
    /\ Len(trades) = 3
    /\ \E i \in 1..Len(trades) : trades[i].trade_type = "sell"
    /\ Len(SelectSeq(trades, LAMBDA t : t.trade_type = "buy")) = 2

\* C31: in every state reachable from idle the number of open positions is at most
\* grid_levels, each position costs qty * entry = total_amount / grid_levels, and so
\* the positions together cost at most total_amount.
C31_PositionsWithinBudget ==
    /\ Len(state.positions) <= bot.grid_levels
    /\ \A i \in 1..Len(state.positions) :
          state.positions[i].qty.n * state.positions[i].entry * bot.grid_levels
            = bot.total_amount * state.positions[i].qty.d
    /\ Len(state.positions) * bot.total_amount <= bot.grid_levels * bot.total_amount

\* as many open positions as grid levels, the last one from a grid buy
C31_Witness ==
    /\ last.called
    /\ bot.grid_levels >= 3
    /\ Len(state.positions) = bot.grid_levels
    /\ last.pre.positions # <<>>
    /\ Buys(decisions) # <<>>

\* C32: every BUY decision of a decide_trade call, first buy of a cycle or grid buy,
\* is at a price p with min_price <= p <= max_price.
C32_BuysWithinRange ==
    \A i \in 1..Len(decisions) :
        decisions[i].side = "buy" =>
            /\ bot.min_price <= decisions[i].entry_price
            /\ decisions[i].entry_price <= bot.max_price

\* C36 as stated: after every decide_trade call that emits a BUY, first buy of a
\* cycle or grid buy, the returned state's lowest_price is null.
C36_LowestNullAfterBuy ==
    (last.called /\ Buys(decisions) # <<>>) => state.lowest_price = Null

\* C36 amended: after a decide_trade call that emits a BUY the returned state's
\* lowest_price is null if the BUY is the first buy of a cycle and is the BUY's
\* price if it is a grid buy.
C36_LowestAfterBuy ==
    (last.called /\ Buys(decisions) # <<>>) =>
        IF last.pre.positions = <<>>
        THEN state.lowest_price = Null
        ELSE state.lowest_price = last.price

\* a grid buy at a price above the lowest price seen since the buy before it
C36_Witness ==
    /\ last.called
    /\ Buys(decisions) # <<>>
    /\ last.pre.positions # <<>>
    /\ last.pre.lowest_price # Null
    /\ last.pre.lowest_price < last.price
    /\ state.lowest_price = last.price

\* C33: the state a runtime resumes from after a crash of its process has as many
\* open positions as the trade log has BUY rows minus SELL rows.
C33_ResumeMatchesLog ==
    [][ (run_pc = "init" /\ run_pc' = "loop" /\ faults > 0) =>
            Len(state'.positions) =
                Len(SelectSeq(trades', LAMBDA t : t.trade_type = "buy"))
                  - Len(SelectSeq(trades', LAMBDA t : t.trade_type = "sell"))
      ]_vars

\* C34: the runtime passes to decide_trade only a price that is still in the price
\* store, written less than its time to live (at most 10 s) earlier; while the key is
\* absent (no write for a time to live) no step emits a decision or a trade row, so
\* the runtime resumes only after a new write.
C34_FreshPrice ==
    [][ /\ price_key.present =>
             (price_key.age < price_key.ttl /\ price_key.ttl <= 10)
        /\ (run_pc = "loop" /\ (trades' # trades \/ previous_price' # previous_price
                                  \/ state' # state))
             => (/\ price_key.present
                 /\ price_key.age < 10
                 /\ last'.called
                 /\ last'.price = price_key.price)
        /\ ~price_key.present
             => (trades' = trades /\ previous_price' = previous_price) ]_vars

\* the key has expired after a trade and the runtime has ticked without a price
C34_Witness ==
    /\ ~price_key.present
    /\ last.tick = "no_price"
    /\ Len(trades) > 0

\* C35: once emergency_sell has returned and the runtime has exited, the trade log
\* holds as many SELL rows as BUY rows.
C35_LogBalanced ==
    (es.pc = "returned" /\ run_pc = "exited") =>
        Cardinality({i \in 1..Len(trades) : trades[i].trade_type = "sell"})
          = Cardinality({i \in 1..Len(trades) : trades[i].trade_type = "buy"})

\* the trade list ts in the order given by the permutation p of its indices
Permuted(ts, p) == [i \in 1..Len(ts) |-> ts[p[i]]]

DistinctCreatedAt(ts) ==
    \A i, j \in 1..Len(ts) : i # j => ts[i].created_at # ts[j].created_at

\* C37: reconstruct_state_from_trades returns the same state for every permutation
\* of a trade list whose created_at values are pairwise distinct.
C37_ReconstructOrderFree ==
    (last.tick = "reconstruct" /\ DistinctCreatedAt(trades)) =>
        \A p \in Permutations(1..Len(trades)) :
            reconstruct_state_from_trades(bot, Permuted(trades, p)) = state

\* a log with buys and a sell, an open position, and an order of its rows whose
\* replay as given ends in another state
C37_Witness ==
    /\ last.tick = "reconstruct"
    /\ Len(trades) >= 3
    /\ DistinctCreatedAt(trades)
    /\ \E i \in 1..Len(trades) : trades[i].trade_type = "sell"
    /\ reconstruct_state_from_trades(bot, trades).positions # <<>>
    /\ \E p \in Permutations(1..Len(trades)) :
          reconstruct_state_from_trades_mut_unsorted(bot, Permuted(trades, p))
            # reconstruct_state_from_trades(bot, trades)

\* C38: after stop() has been requested on the ingest service no further price batch
\* is written to the price store.
C38_NoWriteAfterStop ==
    [][ (ws.pc # "off" /\ ~ws.is_running) => price_key' = price_key ]_vars

\* C39: decide_trade returns for every configuration, price and state, also when
\* max_price <= min_price or grid_levels <= 0; with such a configuration the grid is
\* empty and a call with open positions emits no buy.
C39_DecideTotal ==
    /\ last.tick # "raised"
    /\ (last.called /\ InvalidConfig(bot)) =>
          /\ state.grid_prices = <<>>
          /\ last.pre.positions # <<>> => Buys(decisions) = <<>>

====
